---------------------------- MODULE Spec2Model ----------------------------
(***************************************************************************)
(* Key-management service: versioned single-key wallets (generation,       *)
(* rotation, cleanup, legacy migration, signing) and threshold wallets     *)
(* (share generation, share retrieval, signing), over one encrypted        *)
(* secret store.  Every `await` on a store call is one step of the calling *)
(* operation; the code between two awaits runs atomically, as it does on   *)
(* the single-threaded event loop.                                         *)
(***************************************************************************)
EXTENDS Integers, Sequences, FiniteSets, TLC

\* ------------------------------------------------------------------ bounds
\* Highest version number a rotation may allocate.
MaxVersion == 3
\* Number of key pairs nacl.sign.keyPair() hands out in one behaviour.
MaxKeys == 3
\* Number of threshold-wallet key pairs generated in one behaviour.
MaxSplits == 2
\* Largest configured number of shares (MPC_THRESHOLD_TOTAL).
MaxTotal == 3
\* Number of calls made to the service in one behaviour.
MaxCalls == 4
MaxCoeff == 1
MaxMpcCalls == 3
MaxSkew == 1
MaxWrites == 2
MaxDays == 60

\* --------------------------------------------------------------- constants
GracePeriodDays == 30
DefaultRequired == 2
DefaultTotal == 3
\* Order of the field the sharing scheme works in (prime, so every nonzero
\* share index has an inverse); it must exceed the number of shares.
FieldOrder == 5
\* The largest number of shares the sharing scheme produces.
MaxShares == 255

Procs == {"p1", "p2"}
\* walletId strings, as sequences of tokens so that secret names are built
\* by concatenation as in the code.
WalletIds == {<<"a">>}
\* request.message: typed `string`, but the handlers only test truthiness,
\* so any truthy JSON value arrives.
Messages == {<<"string", "m1">>, <<"number", "7">>}

VARIABLES
  store,     \* secret name -> secret value (AWS Secrets Manager)
  pc,        \* per call: the await point it is at
  op,        \* per call: the operation it runs
  loc,       \* per call: its local variables
  nextKey,   \* number of the next key pair nacl.sign.keyPair() returns
  cfg,       \* mpcConfig.threshold, read from the environment at start-up
  splits,    \* history: key -> the shares secrets.share produced for it
  calls,     \* number of calls made so far
  now        \* the clock, as new Date() reads it

vars == <<store, pc, op, loc, nextKey, cfg, splits, calls, now>>

\* ------------------------------------------------------------ primitives
\* Decimal rendering of a version or share index in a secret name.
Str(n) == <<"0", "1", "2", "3", "4", "5", "6", "7", "8", "9">>[n + 1]

\* nacl: the public key of a secret key; a signature; its verification.
PubOf(sk) == <<"pub", sk>>
Hex0x(pub) == <<"0x", pub>>
SignDetached(msg, sk) == <<"sig", sk, msg>>
Verifies(sig, msg, pub) == sig = <<"sig", pub[2], msg>>

\* KMS envelope around a stored private key or share.
EncryptData(plain) == <<"kms", plain>>
DecryptData(cipher) == cipher[2]

\* Secret names (SECRETS_PREFIX is a common prefix and is left out).
PrivateKeyName(id) == id
VersionedKeyName(w, v) == w \o <<"-v", Str(v)>>
LedgerName(w) == w \o <<"-version", "-metadata">>
PublicKeyName(id) == id \o <<"-metadata">>
VersionedId(w, v) == w \o <<"-v", Str(v)>>
ShareId(w, i) == <<"mpc-share-">> \o w \o <<"-", Str(i)>>

Exists(st, name) == name \in DOMAIN st
\* CreateSecret, and on ResourceExistsException Update/PutSecretValue.
Put(st, name, val) == [n \in DOMAIN st \cup {name} |-> IF n = name THEN val ELSE st[n]]

\* ------------------------------------------------------------------- time
\* An instant, as a day number and the milliseconds into that day.
Time(d, m) == [day |-> d, ms |-> m]
\* The clock reading s milliseconds after t.
Later(t, s) == [t EXCEPT !.ms = @ + s]
\* Date.setDate(getDate() + n), rotation.service.ts 85.
AddDays(t, n) == [t EXCEPT !.day = @ + n]
Before(t, u) == t.day < u.day \/ (t.day = u.day /\ t.ms < u.ms)

\* ----------------------------------------------------------------- ledger
NoLedger == [walletId |-> <<>>, currentVersion |-> 0, versions |-> <<>>,
             rotationHistory |-> <<>>]
IsLedger(md) == md.currentVersion # 0

\* getWalletVersionMetadata: the parsed ledger, or null.
GetWalletVersionMetadata(st, w) ==
  IF Exists(st, LedgerName(w)) THEN st[LedgerName(w)] ELSE NoLedger

\* storeWalletVersionMetadata: one create-or-put of the whole JSON document.
StoreWalletVersionMetadata(st, md) == Put(st, LedgerName(md.walletId), md)

\* Mutant of StoreVersionedPrivateKey: the key goes under the bare wallet
\* id, whatever the version.
StoreVersionedPrivateKeyUnversioned(st, w, v, sk) ==
  Put(st, PrivateKeyName(w),
      [encryptedPrivateKey |-> EncryptData(sk), walletId |-> w])

\* storeVersionedPrivateKey: one create-or-put under <walletId>-v<version>.
StoreVersionedPrivateKey(st, w, v, sk) ==
  Put(st, VersionedKeyName(w, v),
      [encryptedPrivateKey |-> EncryptData(sk), walletId |-> w])

StorePrivateKey(st, id, secret) ==
  Put(st, PrivateKeyName(id),
      [encryptedPrivateKey |-> EncryptData(secret), walletId |-> id])

StorePublicKeyMetadata(st, id, pub, type) ==
  Put(st, PublicKeyName(id), [publicKey |-> pub, walletType |-> type])

ActiveVersions(md) == {v \in DOMAIN md.versions : md.versions[v].status = "active"}

\* generateWallet lines 44-55: the first ledger of a wallet.
InitialLedger(w, pub) ==
  [walletId |-> w, currentVersion |-> 1,
   versions |-> (1 :> [publicKey |-> pub, status |-> "active"]),
   rotationHistory |-> <<>>]

\* Mutant of StageRotation: the previous version is left active.
StageRotationKeepsOldActive(md, newPub) ==
  LET new == md.currentVersion + 1
  IN [md EXCEPT !.currentVersion = new,
                !.versions = (new :> [publicKey |-> newPub, status |-> "active"]) @@ @,
                !.rotationHistory =
                   Append(@, [fromVersion |-> md.currentVersion, toVersion |-> new])]

\* rotateWallet lines 71-94: the ledger staged in memory before the write.
StageRotation(md, newPub) ==
  LET cur == md.currentVersion
      new == cur + 1
      withNew == (new :> [publicKey |-> newPub, status |-> "active"]) @@ md.versions
  IN [md EXCEPT !.currentVersion = new,
                !.versions = [withNew EXCEPT ![cur].status = "deprecated"],
                !.rotationHistory = Append(@, [fromVersion |-> cur, toVersion |-> new])]

\* rotateWallet lines 82-86: the deprecated record gets rotatedAt and
\* expiresAt.
StampDeprecated(md, v, rotatedAt, expiresAt) ==
  [md EXCEPT !.versions[v] =
     [publicKey |-> @.publicKey, status |-> @.status,
      rotatedAt |-> rotatedAt, expiresAt |-> expiresAt]]

\* Mutant of MarkDeleted: the deletion is also entered in the history.
MarkDeletedLogged(md, v) ==
  [md EXCEPT !.versions[v].status = "deleted",
             !.rotationHistory = Append(@, [fromVersion |-> v, toVersion |-> v])]

\* deleteOldVersion line 171.
MarkDeleted(md, v) == [md EXCEPT !.versions[v].status = "deleted"]

\* ------------------------------------------------------------------ calls
NoLoc ==
  [w |-> <<>>, ver |-> 0, msg |-> <<>>, needed |-> 0, md |-> NoLedger,
   key |-> 0, pub |-> <<>>, buf |-> "none", i |-> 0, retrieved |-> <<>>,
   errors |-> <<>>, fetchLog |-> <<>>, shares |-> <<>>, combined |-> FALSE,
   cached |-> FALSE, rotatedAt |-> Time(0, 0), expiresAt |-> Time(0, 0),
   res |-> <<>>, err |-> ""]

\* A key pair of a wallet created before versioning (unnamed/part_001).
LegacyKey == MaxKeys + 1

Idle(p) == pc[p] = "idle"

Goto(p, label) == pc' = [pc EXCEPT ![p] = label]

Start(p, name, label, locals) ==
  /\ Idle(p)
  /\ calls < MaxCalls
  /\ calls' = calls + 1
  /\ op' = [op EXCEPT ![p] = name]
  /\ Goto(p, label)
  /\ loc' = [loc EXCEPT ![p] = locals]

\* -------------------------------------------------------- generateWallet
\* signing.service.ts 17-75.  The key pair is generated before the first
\* await.
CallGenerateWallet(p, w) ==
  /\ nextKey <= MaxKeys
  /\ Start(p, "generateWallet", "g_key", [NoLoc EXCEPT !.w = w, !.key = nextKey, !.buf = "live"])
  /\ nextKey' = nextKey + 1
  /\ UNCHANGED <<store, cfg, splits, now>>

GenStoreKey(p) ==
  /\ pc[p] = "g_key"
  /\ store' = StoreVersionedPrivateKey(store, loc[p].w, 1, loc[p].key)
  /\ Goto(p, "g_pub")
  /\ UNCHANGED <<op, loc, nextKey, cfg, splits, calls, now>>

GenStorePub(p) ==
  /\ pc[p] = "g_pub"
  /\ store' = StorePublicKeyMetadata(store, VersionedId(loc[p].w, 1),
                                     Hex0x(PubOf(loc[p].key)), "standard")
  /\ Goto(p, "g_ledger")
  /\ UNCHANGED <<op, loc, nextKey, cfg, splits, calls, now>>

GenStoreLedger(p) ==
  /\ pc[p] = "g_ledger"
  /\ store' = StoreWalletVersionMetadata(
                 store, InitialLedger(loc[p].w, Hex0x(PubOf(loc[p].key))))
  /\ loc' = [loc EXCEPT ![p].res =
               [walletId |-> loc[p].w, publicKey |-> Hex0x(PubOf(loc[p].key))]]
  /\ Goto(p, "done")
  /\ UNCHANGED <<op, nextKey, cfg, splits, calls, now>>

\* ---------------------------------------------------------- rotateWallet
\* rotation.service.ts 16-116.
CallRotateWallet(p, w) ==
  /\ Start(p, "rotateWallet", "r_read", [NoLoc EXCEPT !.w = w])
  /\ UNCHANGED <<store, nextKey, cfg, splits, now>>

\* Mutant of RotRead: a missing ledger is not checked and the rotation goes
\* on to generate and store a key.
RotReadNoCheck(p) ==
  /\ pc[p] = "r_read"
  /\ nextKey <= MaxKeys
  /\ Goto(p, "r_key")
  /\ loc' = [loc EXCEPT ![p].md = GetWalletVersionMetadata(store, loc[p].w),
                        ![p].key = nextKey, ![p].buf = "live"]
  /\ nextKey' = nextKey + 1
  /\ UNCHANGED <<store, op, cfg, splits, calls, now>>

\* Lines 31-49: read the ledger; without one the call throws; otherwise
\* the new key pair is generated before the next await.
RotRead(p) ==
  /\ pc[p] = "r_read"
  /\ LET md == GetWalletVersionMetadata(store, loc[p].w) IN
       \/ /\ ~IsLedger(md)
          /\ Goto(p, "failed")
          /\ loc' = [loc EXCEPT ![p].err = "WalletNotFound"]
          /\ UNCHANGED nextKey
       \/ /\ IsLedger(md)
          /\ md.currentVersion < MaxVersion
          /\ nextKey <= MaxKeys
          /\ Goto(p, "r_key")
          /\ loc' = [loc EXCEPT ![p].md = md, ![p].key = nextKey, ![p].buf = "live"]
          /\ nextKey' = nextKey + 1
  /\ UNCHANGED <<store, op, cfg, splits, calls, now>>

\* Mutant of RotateStep3: the ledger is committed together with the key,
\* before the public-key entry is stored.
RotateStep3CommitsEarly(st, md, sk) ==
  StoreWalletVersionMetadata(
    StoreVersionedPrivateKey(st, md.walletId, md.currentVersion + 1, sk),
    StageRotation(md, Hex0x(PubOf(sk))))

\* Mutant of RotateStep3: the new key is stored under the current version.
RotateStep3WrongVersion(st, md, sk) ==
  StoreVersionedPrivateKey(st, md.walletId, md.currentVersion, sk)

\* Lines 52-61.
RotateStep3(st, md, sk) ==
  StoreVersionedPrivateKey(st, md.walletId, md.currentVersion + 1, sk)

\* Mutant of RotateStep4: the new public key replaces the entry of the
\* current version.
RotateStep4OldEntry(st, md, sk) ==
  StorePublicKeyMetadata(st, VersionedId(md.walletId, md.currentVersion),
                         Hex0x(PubOf(sk)), "standard")

\* Lines 64-68.
RotateStep4(st, md, sk) ==
  StorePublicKeyMetadata(st, VersionedId(md.walletId, md.currentVersion + 1),
                         Hex0x(PubOf(sk)), "standard")

\* Lines 71-96; rotatedAt and expiresAt are what lines 82 and 84-86 made of
\* the clock.
RotateStep5(st, md, sk, rotatedAt, expiresAt) ==
  StoreWalletVersionMetadata(
    st, StampDeprecated(StageRotation(md, Hex0x(PubOf(sk))), md.currentVersion,
                        rotatedAt, expiresAt))

\* Lines 84-86: the expiry computed from the clock reading t.
ExpiryOf(t) == AddDays(t, GracePeriodDays)

\* Mutant of RotateResult: the hex of the new secret key is returned where
\* the new public key belongs.
RotateResultWithKey(md, sk) ==
  [walletId |-> md.walletId,
   newVersion |-> md.currentVersion + 1,
   newPublicKey |-> Hex0x(<<"key", sk>>),
   oldVersion |-> md.currentVersion,
   oldPublicKey |-> md.versions[md.currentVersion].publicKey,
   gracePeriodDays |-> GracePeriodDays]

\* Lines 108-115.
RotateResult(md, sk) ==
  [walletId |-> md.walletId,
   newVersion |-> md.currentVersion + 1,
   newPublicKey |-> Hex0x(PubOf(sk)),
   oldVersion |-> md.currentVersion,
   oldPublicKey |-> md.versions[md.currentVersion].publicKey,
   gracePeriodDays |-> GracePeriodDays]

RotStoreKey(p) ==
  /\ pc[p] = "r_key"
  /\ store' = RotateStep3(store, loc[p].md, loc[p].key)
  /\ Goto(p, "r_pub")
  /\ UNCHANGED <<op, loc, nextKey, cfg, splits, calls, now>>

RotStorePub(p) ==
  /\ pc[p] = "r_pub"
  /\ store' = RotateStep4(store, loc[p].md, loc[p].key)
  /\ Goto(p, "r_ledger")
  /\ UNCHANGED <<op, loc, nextKey, cfg, splits, calls, now>>

\* scheduleCleanup, lines 148-159: a line is logged; the timer is commented
\* out, so no task is set and nothing is stored.  Result: the store after
\* the call.
ScheduleCleanup(st, w, v, days) == st

\* Lines 82 and 84 read the clock one after the other; it may have moved
\* on by up to MaxSkew milliseconds in between.  Line 106 then calls
\* scheduleCleanup for the old version.
RotStoreLedger(p) ==
  /\ pc[p] = "r_ledger"
  /\ \E skew \in 0..MaxSkew :
       LET rotatedAt == now
           expiresAt == ExpiryOf(Later(now, skew))
       IN /\ store' = ScheduleCleanup(
                         RotateStep5(store, loc[p].md, loc[p].key, rotatedAt, expiresAt),
                         loc[p].w, loc[p].md.currentVersion, GracePeriodDays)
          /\ loc' = [loc EXCEPT ![p].res = RotateResult(loc[p].md, loc[p].key),
                                ![p].rotatedAt = rotatedAt,
                                ![p].expiresAt = expiresAt]
          /\ now' = Later(now, skew)
  /\ Goto(p, "done")
  /\ UNCHANGED <<op, nextKey, cfg, splits, calls>>

\* ------------------------------------------------------ deleteOldVersion
\* rotation.service.ts 164-177.
CallDeleteOldVersion(p, w, v) ==
  /\ Start(p, "deleteOldVersion", "d_read", [NoLoc EXCEPT !.w = w, !.ver = v])
  /\ UNCHANGED <<store, nextKey, cfg, splits, now>>

DelRead(p) ==
  /\ pc[p] = "d_read"
  /\ LET md == GetWalletVersionMetadata(store, loc[p].w) IN
       \/ /\ IsLedger(md) /\ loc[p].ver \in DOMAIN md.versions
          /\ loc' = [loc EXCEPT ![p].md = MarkDeleted(md, loc[p].ver)]
          /\ Goto(p, "d_store")
       \/ /\ ~(IsLedger(md) /\ loc[p].ver \in DOMAIN md.versions)
          /\ Goto(p, "done")
          /\ UNCHANGED loc
  /\ UNCHANGED <<store, op, nextKey, cfg, splits, calls, now>>

DelStore(p) ==
  /\ pc[p] = "d_store"
  /\ store' = StoreWalletVersionMetadata(store, loc[p].md)
  /\ Goto(p, "done")
  /\ UNCHANGED <<op, loc, nextKey, cfg, splits, calls, now>>

\* ------------------------------------------------------ getActiveVersion
\* rotation.service.ts 121-136.
CallGetActiveVersion(p, w) ==
  /\ Start(p, "getActiveVersion", "a_read", [NoLoc EXCEPT !.w = w])
  /\ UNCHANGED <<store, nextKey, cfg, splits, now>>

\* Lines 122-124 and 135.
AvRead(p) ==
  /\ pc[p] = "a_read"
  /\ LET md == GetWalletVersionMetadata(store, loc[p].w) IN
       \/ /\ IsLedger(md)
          /\ loc' = [loc EXCEPT ![p].md = md, ![p].res = md.currentVersion]
          /\ Goto(p, "done")
       \/ /\ ~IsLedger(md)
          /\ loc' = [loc EXCEPT ![p].md = md]
          /\ Goto(p, "a_key")
  /\ UNCHANGED <<store, op, nextKey, cfg, splits, calls, now>>

\* Mutant of AvGetKey: version 1 is returned without looking for the key.
AvGetKeyAssumesLegacy(p) ==
  /\ pc[p] = "a_key"
  /\ loc' = [loc EXCEPT ![p].res = 1]
  /\ Goto(p, "done")
  /\ UNCHANGED <<store, op, nextKey, cfg, splits, calls, now>>

\* Lines 126-133: getPrivateKey delivers the legacy key and 1 is returned;
\* the bare catch turns every rejection of that call, the key missing or
\* the store failing, into "Wallet not found".
AvGetKey(p) ==
  /\ pc[p] = "a_key"
  /\ \/ /\ Exists(store, PrivateKeyName(loc[p].w))
        /\ loc' = [loc EXCEPT ![p].res = 1]
        /\ Goto(p, "done")
     \/ /\ loc' = [loc EXCEPT ![p].err = "WalletNotFound"]
        /\ Goto(p, "failed")
  /\ UNCHANGED <<store, op, nextKey, cfg, splits, calls, now>>

\* ---------------------------------------------------- getRotationHistory
\* rotation.service.ts 141-143: the stored ledger, or null, is returned as
\* it is.
CallGetRotationHistory(p, w) ==
  /\ Start(p, "getRotationHistory", "h_read", [NoLoc EXCEPT !.w = w])
  /\ UNCHANGED <<store, nextKey, cfg, splits, now>>

HistRead(p) ==
  /\ pc[p] = "h_read"
  /\ LET md == GetWalletVersionMetadata(store, loc[p].w) IN
       loc' = [loc EXCEPT ![p].md = md, ![p].res = md]
  /\ Goto(p, "done")
  /\ UNCHANGED <<store, op, nextKey, cfg, splits, calls, now>>

\* --------------------------------------------------- migrateLegacyWallet
\* rotation.service.ts 182-219.
CallMigrateLegacyWallet(p, w) ==
  /\ Start(p, "migrateLegacyWallet", "m_read", [NoLoc EXCEPT !.w = w])
  /\ UNCHANGED <<store, nextKey, cfg, splits, now>>

\* Mutant of MigRead: the migration goes on whether or not a ledger exists.
MigReadNoCheck(p) ==
  /\ pc[p] = "m_read"
  /\ Goto(p, "m_key")
  /\ UNCHANGED <<store, op, loc, nextKey, cfg, splits, calls, now>>

MigRead(p) ==
  /\ pc[p] = "m_read"
  /\ \/ /\ IsLedger(GetWalletVersionMetadata(store, loc[p].w))
        /\ Goto(p, "done")
     \/ /\ ~IsLedger(GetWalletVersionMetadata(store, loc[p].w))
        /\ Goto(p, "m_key")
  /\ UNCHANGED <<store, op, loc, nextKey, cfg, splits, calls, now>>

MigGetKey(p) ==
  /\ pc[p] = "m_key"
  /\ \/ /\ Exists(store, PrivateKeyName(loc[p].w))
        /\ loc' = [loc EXCEPT ![p].key =
                     DecryptData(store[PrivateKeyName(loc[p].w)].encryptedPrivateKey)]
        /\ Goto(p, "m_pub")
     \/ /\ ~Exists(store, PrivateKeyName(loc[p].w))
        /\ loc' = [loc EXCEPT ![p].err = "WalletNotFound"]
        /\ Goto(p, "failed")
  /\ UNCHANGED <<store, op, nextKey, cfg, splits, calls, now>>

MigGetPub(p) ==
  /\ pc[p] = "m_pub"
  /\ \/ /\ Exists(store, PublicKeyName(loc[p].w))
        /\ loc' = [loc EXCEPT ![p].pub = store[PublicKeyName(loc[p].w)].publicKey]
        /\ Goto(p, "m_store")
     \/ /\ ~Exists(store, PublicKeyName(loc[p].w))
        /\ loc' = [loc EXCEPT ![p].err = "MetadataNotFound"]
        /\ Goto(p, "failed")
  /\ UNCHANGED <<store, op, nextKey, cfg, splits, calls, now>>

MigStoreKey(p) ==
  /\ pc[p] = "m_store"
  /\ store' = StoreVersionedPrivateKey(store, loc[p].w, 1, loc[p].key)
  /\ Goto(p, "m_ledger")
  /\ UNCHANGED <<op, loc, nextKey, cfg, splits, calls, now>>

MigStoreLedger(p) ==
  /\ pc[p] = "m_ledger"
  /\ store' = StoreWalletVersionMetadata(store, InitialLedger(loc[p].w, loc[p].pub))
  /\ Goto(p, "done")
  /\ UNCHANGED <<op, loc, nextKey, cfg, splits, calls, now>>

\* ----------------------------------------------------------- signMessage
\* signing.service.ts 81-121.
CallSignMessage(p, w, m) ==
  /\ Start(p, "signMessage", "s_read", [NoLoc EXCEPT !.w = w, !.msg = m])
  /\ UNCHANGED <<store, nextKey, cfg, splits, now>>

\* Lines 86-87: the active version, 1 when there is no ledger.
ResolveVersion(md) == IF IsLedger(md) THEN md.currentVersion ELSE 1

SignRead(p) ==
  /\ pc[p] = "s_read"
  /\ LET md == GetWalletVersionMetadata(store, loc[p].w) IN
       loc' = [loc EXCEPT ![p].md = md, ![p].ver = ResolveVersion(md)]
  /\ Goto(p, "s_key")
  /\ UNCHANGED <<store, op, nextKey, cfg, splits, calls, now>>

\* Buffer.from(message, 'utf-8') throws a TypeError unless message is a
\* string.
IsString(m) == m[1] = "string"

\* Lines 95-120 and mpc-signing.service.ts 91-118, run without an await once
\* the key hex is there: the buffer is filled from the hex, the key pair is
\* derived and the message signed; fill(0) is reached only when nothing
\* threw.  wellFormed: the buffer holds 64 bytes (nacl checks the length).
\* buf is the state of the key-material buffer: "none" before it is
\* allocated, "live" while it holds the key, "zeroed" after fill(0).
\* Result: the locals after the block and whether it returned.
SignBlock(l, sk, wellFormed) ==
  IF wellFormed /\ IsString(l.msg)
    THEN [ok |-> TRUE,
          l |-> [l EXCEPT !.key = sk, !.buf = "zeroed",
                          !.res = [signature |-> Hex0x(SignDetached(l.msg, sk)),
                                   publicKey |-> Hex0x(PubOf(sk)),
                                   walletId |-> l.w]]]
    ELSE [ok |-> FALSE,
          l |-> [l EXCEPT !.key = sk, !.buf = "live", !.err = "CryptoFailure"]]

SignGetKey(p) ==
  /\ pc[p] = "s_key"
  /\ LET name == VersionedKeyName(loc[p].w, loc[p].ver) IN
       \/ /\ ~Exists(store, name)
          /\ loc' = [loc EXCEPT ![p].err = "VersionNotFound"]
          /\ Goto(p, "failed")
       \/ /\ Exists(store, name)
          /\ LET out == SignBlock(loc[p], DecryptData(store[name].encryptedPrivateKey), TRUE)
             IN /\ loc' = [loc EXCEPT ![p] = out.l]
                /\ Goto(p, IF out.ok THEN "done" ELSE "failed")
  /\ UNCHANGED <<store, op, nextKey, cfg, splits, calls, now>>

\* ---------------------------------------------------------- getPublicKey
\* signing.service.ts 142-182.
CallGetPublicKey(p, w) ==
  /\ Start(p, "getPublicKey", "k_read", [NoLoc EXCEPT !.w = w])
  /\ UNCHANGED <<store, nextKey, cfg, splits, now>>

\* Lines 147-148.
PkRead(p) ==
  /\ pc[p] = "k_read"
  /\ LET md == GetWalletVersionMetadata(store, loc[p].w) IN
       loc' = [loc EXCEPT ![p].md = md, ![p].ver = ResolveVersion(md)]
  /\ Goto(p, "k_meta")
  /\ UNCHANGED <<store, op, nextKey, cfg, splits, calls, now>>

\* Lines 153-157 and mpc-signing.service.ts 143-147: the entry is returned
\* when getPublicKeyMetadata delivers it; the inner catch takes every
\* rejection of that call, the entry missing or the store failing, to the
\* reconstruction path.  cached records whether the entry was there.
MetadataLookup(p, id, hitLabel, missLabel) ==
  LET name == PublicKeyName(id)
      l == [loc[p] EXCEPT !.cached = Exists(store, name)]
  IN \/ /\ Exists(store, name)
        /\ loc' = [loc EXCEPT ![p] = [l EXCEPT !.res = [publicKey |-> store[name].publicKey]]]
        /\ Goto(p, hitLabel)
     \/ /\ loc' = [loc EXCEPT ![p] = l]
        /\ Goto(p, missLabel)

PkMeta(p) ==
  /\ pc[p] = "k_meta"
  /\ MetadataLookup(p, VersionedId(loc[p].w, loc[p].ver), "done", "k_key")
  /\ UNCHANGED <<store, op, nextKey, cfg, splits, calls, now>>

\* Lines 160-163: the key material is read and the public key derived.
PkGetKey(p) ==
  /\ pc[p] = "k_key"
  /\ LET name == VersionedKeyName(loc[p].w, loc[p].ver) IN
       \/ /\ ~Exists(store, name)
          /\ loc' = [loc EXCEPT ![p].err = "VersionNotFound"]
          /\ Goto(p, "failed")
       \/ /\ Exists(store, name)
          /\ LET sk == DecryptData(store[name].encryptedPrivateKey) IN
               loc' = [loc EXCEPT ![p].key = sk, ![p].buf = "live",
                                  ![p].pub = Hex0x(PubOf(sk))]
          /\ Goto(p, "k_store")
  /\ UNCHANGED <<store, op, nextKey, cfg, splits, calls, now>>

\* Lines 166-176: the entry is written, the buffer zeroed, the key returned.
PkStore(p) ==
  /\ pc[p] = "k_store"
  /\ store' = StorePublicKeyMetadata(store, VersionedId(loc[p].w, loc[p].ver),
                                     loc[p].pub, "standard")
  /\ loc' = [loc EXCEPT ![p].buf = "zeroed", ![p].res = [publicKey |-> loc[p].pub]]
  /\ Goto(p, "done")
  /\ UNCHANGED <<op, nextKey, cfg, splits, calls, now>>

\* ------------------------------------------------------- secret sharing
\* secrets.share / secrets.combine of secrets.js-grempe, called at
\* share-manager.service.ts 49 and 136.  The library is not part of the
\* repository; it is modelled as Shamir's scheme over the prime field
\* Z_FieldOrder: share i is the point (i, f(i)) of a polynomial f of degree
\* threshold - 1 with f(0) = secret, and combine interpolates f(0).
RECURSIVE EvalPoly(_, _)
EvalPoly(cs, x) ==
  IF cs = <<>> THEN 0
  ELSE (Head(cs) + x * EvalPoly(Tail(cs), x)) % FieldOrder

FieldInv(a) == CHOOSE b \in 1..(FieldOrder - 1) : (a * b) % FieldOrder = 1

\* The random coefficients of one split, drawn from 0..MaxCoeff.
CoeffSeqs(t) == [1..(t - 1) -> 0..MaxCoeff]

SecretsShare(secret, n, t, coeffs) ==
  [i \in 1..n |-> [id |-> i, data |-> EvalPoly(<<secret>> \o coeffs, i)]]

\* combine keeps the first share of each id.
RECURSIVE DistinctIds(_)
DistinctIds(shares) ==
  IF shares = <<>> THEN <<>>
  ELSE LET rest == DistinctIds(SubSeq(shares, 1, Len(shares) - 1))
           last == shares[Len(shares)]
       IN IF \E j \in 1..Len(rest) : rest[j].id = last.id
            THEN rest ELSE Append(rest, last)

RECURSIVE LagrangeBasis(_, _, _)
LagrangeBasis(pts, j, m) ==
  IF m = 0 THEN 1
  ELSE IF m = j THEN LagrangeBasis(pts, j, m - 1)
  ELSE (LagrangeBasis(pts, j, m - 1) * pts[m].id
          * FieldInv((pts[m].id - pts[j].id + FieldOrder) % FieldOrder))
         % FieldOrder

RECURSIVE LagrangeSum(_, _)
LagrangeSum(pts, j) ==
  IF j = 0 THEN 0
  ELSE (LagrangeSum(pts, j - 1)
          + pts[j].data * LagrangeBasis(pts, j, Len(pts))) % FieldOrder

SecretsCombine(shares) ==
  LET pts == DistinctIds(shares) IN LagrangeSum(pts, Len(pts))

\* ----------------------------------------------------- generateMPCWallet
\* mpc-signing.service.ts 21-73 with generateAndStoreShares
\* (share-manager.service.ts 30-86) inlined.  The key pair and the shares
\* are computed before the first await.
\* Mutant of ShareForIndex: every index receives the first share.
ShareForIndexFirst(shares, i) == shares[1]

\* Line 60: the share stored under index i.
ShareForIndex(shares, i) == shares[i]

\* Mutant of ThresholdAccepted: a threshold of 1 is let through.
ThresholdAcceptedFromOne(n, t) == 1 <= t /\ t <= n /\ n <= MaxShares

\* What secrets.share (line 49) accepts as number of shares n and
\* threshold t; it throws otherwise.
ThresholdAccepted(n, t) == 2 <= t /\ t <= n /\ n <= MaxShares

\* The split of line 49 comes before the first store call of line 60, so a
\* refused threshold ends the call with nothing stored.
CallGenerateMPCWallet(p, w) ==
  /\ calls < MaxMpcCalls
  /\ nextKey <= MaxSplits
  /\ IF ThresholdAccepted(cfg.total, cfg.required)
       THEN \E coeffs \in CoeffSeqs(cfg.required) :
              LET shares == SecretsShare(nextKey, cfg.total, cfg.required, coeffs) IN
                /\ Start(p, "generateMPCWallet", "x_share",
                         [NoLoc EXCEPT !.w = w, !.key = nextKey, !.buf = "live",
                                       !.shares = shares, !.i = 1])
                /\ splits' = (nextKey :> shares) @@ splits
       ELSE /\ Start(p, "generateMPCWallet", "failed",
                     [NoLoc EXCEPT !.w = w, !.key = nextKey, !.buf = "live",
                                   !.err = "InvalidThreshold"])
            /\ UNCHANGED splits
  /\ nextKey' = nextKey + 1
  /\ UNCHANGED <<store, cfg, now>>

\* Mutant of MpcStoreShare: the key itself is stored under every index.
MpcStoreShareWhole(p) ==
  /\ pc[p] = "x_share"
  /\ store' = StorePrivateKey(store, ShareId(loc[p].w, loc[p].i),
                              [id |-> loc[p].i, data |-> loc[p].key])
  /\ loc' = [loc EXCEPT ![p].i = @ + 1]
  /\ Goto(p, IF loc[p].i < Len(loc[p].shares) THEN "x_share" ELSE "x_pub")
  /\ UNCHANGED <<op, nextKey, cfg, splits, calls, now>>

\* Lines 56-77: share i goes to mpc-share-<walletId>-<i>.
MpcStoreShare(p) ==
  /\ pc[p] = "x_share"
  /\ store' = StorePrivateKey(store, ShareId(loc[p].w, loc[p].i),
                              ShareForIndex(loc[p].shares, loc[p].i))
  /\ loc' = [loc EXCEPT ![p].i = @ + 1]
  /\ Goto(p, IF loc[p].i < Len(loc[p].shares) THEN "x_share" ELSE "x_pub")
  /\ UNCHANGED <<op, nextKey, cfg, splits, calls, now>>

\* mpc-signing.service.ts 39-63: the public key is stored, then the secret
\* key buffer is zeroed.
MpcStorePub(p) ==
  /\ pc[p] = "x_pub"
  /\ store' = StorePublicKeyMetadata(store, loc[p].w,
                                     Hex0x(PubOf(loc[p].key)), "mpc")
  /\ loc' = [loc EXCEPT ![p].buf = "zeroed",
                        ![p].res = [walletId |-> loc[p].w,
                                    publicKey |-> Hex0x(PubOf(loc[p].key))]]
  /\ Goto(p, "done")
  /\ UNCHANGED <<op, nextKey, cfg, splits, calls, now>>

\* ----------------------------------------------- retrieveAndCombineShares
\* share-manager.service.ts 96-142.  The optional argument sharesToRetrieve
\* is <<>> when omitted and <<n>> when given.
Requests == {<<>>} \cup {<<n>> : n \in 0..MaxTotal}

\* Line 101: sharesToRetrieve || threshold, the threshold for an omitted
\* argument and for 0.
RetrieveCount(sharesToRetrieve) ==
  IF sharesToRetrieve = <<>> \/ sharesToRetrieve[1] = 0
    THEN cfg.required
    ELSE sharesToRetrieve[1]

\* Mutant of LoopContinues: the first rejected fetch ends the scan.
LoopStopsOnError(l) ==
  l.i <= cfg.total /\ Len(l.retrieved) < l.needed /\ l.errors = <<>>

\* Mutant of LoopContinues: the scan always runs to the last index.
LoopScansAll(l) == l.i <= cfg.total

\* Line 113: the loop condition.
LoopContinues(l) == l.i <= cfg.total /\ Len(l.retrieved) < l.needed

\* Mutant of EnoughShares: the final check compares with the requested count.
EnoughSharesNeeded(l) == Len(l.retrieved) >= l.needed

\* Mutant of EnoughShares: one share fewer than the threshold passes.
EnoughSharesOffByOne(l) == Len(l.retrieved) >= cfg.required - 1

\* Line 125, negated: enough shares to combine.
EnoughShares(l) == Len(l.retrieved) >= cfg.required

\* Lines 103-105: the request is refused before any share is fetched.
CallRetrieveAndCombineShares(p, w, k) ==
  /\ calls < MaxMpcCalls
  /\ LET l == [NoLoc EXCEPT !.w = w, !.needed = RetrieveCount(k), !.i = 1] IN
       IF RetrieveCount(k) < cfg.required
         THEN Start(p, "retrieveAndCombineShares", "failed",
                    [l EXCEPT !.i = 0, !.err = "InsufficientShares"])
         ELSE Start(p, "retrieveAndCombineShares",
                    IF LoopContinues(l) THEN "f_fetch" ELSE "f_combine", l)
  /\ UNCHANGED <<store, nextKey, cfg, splits, now>>

\* Mutant of FetchShare: a share that is read is taken out of the store.
FetchShareConsumes(p) ==
  /\ pc[p] = "f_fetch"
  /\ LET l == loc[p]
         name == PrivateKeyName(ShareId(l.w, l.i))
         logged == [l EXCEPT !.fetchLog = Append(@, l.i), !.i = @ + 1]
     IN \/ /\ loc' = [loc EXCEPT ![p] = [logged EXCEPT !.errors = Append(@, l.i)]]
           /\ Goto(p, IF LoopContinues([logged EXCEPT !.errors = Append(@, l.i)])
                        THEN "f_fetch" ELSE "f_combine")
           /\ store' = store
        \/ /\ Exists(store, name)
           /\ LET l2 == [logged EXCEPT !.retrieved =
                          Append(@, DecryptData(store[name].encryptedPrivateKey))]
              IN /\ loc' = [loc EXCEPT ![p] = l2]
                 /\ Goto(p, IF LoopContinues(l2) THEN "f_fetch" ELSE "f_combine")
           /\ store' = [n \in DOMAIN store \ {name} |-> store[n]]
  /\ UNCHANGED <<op, nextKey, cfg, splits, calls, now>>

\* Mutant of FetchShare: after a rejected fetch the same index is tried
\* again.
FetchShareRetries(p) ==
  /\ pc[p] = "f_fetch"
  /\ LET l == loc[p]
         name == PrivateKeyName(ShareId(l.w, l.i))
         logged == [l EXCEPT !.fetchLog = Append(@, l.i)]
     IN \E l2 \in
             {[logged EXCEPT !.errors = <<l.i>>]}
               \cup (IF Exists(store, name)
                       THEN {[logged EXCEPT !.i = @ + 1, !.retrieved =
                                Append(@, DecryptData(store[name].encryptedPrivateKey))]}
                       ELSE {}) :
          /\ loc' = [loc EXCEPT ![p] = l2]
          /\ Goto(p, IF LoopContinues(l2) THEN "f_fetch" ELSE "f_combine")
  /\ UNCHANGED <<store, op, nextKey, cfg, splits, calls, now>>

\* Lines 113-123, one iteration: share i is fetched; a rejected fetch is
\* recorded and the scan goes on.
FetchShare(p) ==
  /\ pc[p] = "f_fetch"
  /\ LET l == loc[p]
         name == PrivateKeyName(ShareId(l.w, l.i))
         logged == [l EXCEPT !.fetchLog = Append(@, l.i), !.i = @ + 1]
     IN \E l2 \in
             {[logged EXCEPT !.errors = Append(@, l.i)]}
               \cup (IF Exists(store, name)
                       THEN {[logged EXCEPT !.retrieved =
                                Append(@, DecryptData(store[name].encryptedPrivateKey))]}
                       ELSE {}) :
          /\ loc' = [loc EXCEPT ![p] = l2]
          /\ Goto(p, IF LoopContinues(l2) THEN "f_fetch" ELSE "f_combine")
  /\ UNCHANGED <<store, op, nextKey, cfg, splits, calls, now>>

\* A key nacl generated (64 bytes); anything else combine returns may or
\* may not have the length nacl accepts.
IsGeneratedKey(k) == k \in 1..(nextKey - 1)

\* mpc-signing.service.ts 150-153: the buffer is filled from the combined
\* hex and the public key derived; fromSecretKey throws on a buffer that is
\* not 64 bytes long.
DeriveBlock(l, sk, wellFormed) ==
  IF wellFormed
    THEN [ok |-> TRUE,
          l |-> [l EXCEPT !.key = sk, !.buf = "live", !.pub = Hex0x(PubOf(sk))]]
    ELSE [ok |-> FALSE,
          l |-> [l EXCEPT !.key = sk, !.buf = "live", !.err = "CryptoFailure"]]

\* Lines 125-141, and for signMessageMPC mpc-signing.service.ts 91-118, for
\* the threshold getPublicKey 150-153.
CombineShares(p) ==
  /\ pc[p] = "f_combine"
  /\ IF ~EnoughShares(loc[p])
       THEN /\ loc' = [loc EXCEPT ![p].err = "InsufficientShares"]
            /\ Goto(p, "failed")
       ELSE LET key == SecretsCombine(loc[p].retrieved)
                l == [loc[p] EXCEPT !.combined = TRUE]
            IN IF op[p] = "signMessageMPC"
                 THEN \E wellFormed \in {TRUE} \cup {IsGeneratedKey(key)} :
                        LET out == SignBlock(l, key, wellFormed) IN
                          /\ loc' = [loc EXCEPT ![p] = out.l]
                          /\ Goto(p, IF out.ok THEN "done" ELSE "failed")
               ELSE IF op[p] = "getPublicKeyMPC"
                 THEN \E wellFormed \in {TRUE} \cup {IsGeneratedKey(key)} :
                        LET out == DeriveBlock(l, key, wellFormed) IN
                          /\ loc' = [loc EXCEPT ![p] = out.l]
                          /\ Goto(p, IF out.ok THEN "y_store" ELSE "failed")
                 ELSE /\ loc' = [loc EXCEPT ![p] = [l EXCEPT !.key = key,
                                                             !.res = [key |-> key]]]
                      /\ Goto(p, "done")
  /\ UNCHANGED <<store, op, nextKey, cfg, splits, calls, now>>

\* -------------------------------------------------------- signMessageMPC
\* mpc-signing.service.ts 79-119.  Line 84 (message.substring) throws for a
\* message that is not a string, before any share is fetched.
CallSignMessageMPC(p, w, m) ==
  /\ calls < MaxMpcCalls
  /\ LET l == [NoLoc EXCEPT !.w = w, !.msg = m, !.needed = cfg.required, !.i = 1] IN
       IF ~IsString(m)
         THEN Start(p, "signMessageMPC", "failed",
                    [l EXCEPT !.i = 0, !.err = "TypeError"])
         ELSE Start(p, "signMessageMPC",
                    IF LoopContinues(l) THEN "f_fetch" ELSE "f_combine", l)
  /\ UNCHANGED <<store, nextKey, cfg, splits, now>>

\* ------------------------------------------- getPublicKey, threshold wallet
\* mpc-signing.service.ts 138-172.
CallGetPublicKeyMPC(p, w) ==
  /\ calls < MaxMpcCalls
  /\ Start(p, "getPublicKeyMPC", "y_meta",
           [NoLoc EXCEPT !.w = w, !.needed = cfg.required, !.i = 1])
  /\ UNCHANGED <<store, nextKey, cfg, splits, now>>

\* Lines 143-149: on a miss the shares are retrieved (needed = threshold).
PkMetaMPC(p) ==
  /\ pc[p] = "y_meta"
  /\ MetadataLookup(p, loc[p].w, "done",
                    IF LoopContinues(loc[p]) THEN "f_fetch" ELSE "f_combine")
  /\ UNCHANGED <<store, op, nextKey, cfg, splits, calls, now>>

\* Lines 156-167: the entry is written, the buffer zeroed, the key returned.
PkStoreMPC(p) ==
  /\ pc[p] = "y_store"
  /\ store' = StorePublicKeyMetadata(store, loc[p].w, loc[p].pub, "mpc")
  /\ loc' = [loc EXCEPT ![p].buf = "zeroed", ![p].res = [publicKey |-> loc[p].pub]]
  /\ Goto(p, "done")
  /\ UNCHANGED <<op, nextKey, cfg, splits, calls, now>>

\* ------------------------------------------------- failures and returns
\* The await points at which the pending store call may reject
\* (throttling, network, KMS): the call throws and writes nothing.
AwaitPoints ==
  {"g_key", "g_pub", "g_ledger", "r_read", "r_key", "r_pub", "r_ledger",
   "d_read", "d_store", "m_read", "m_key", "m_pub", "m_store", "m_ledger",
   "s_read", "s_key", "x_share", "x_pub", "k_read", "k_key", "k_store",
   "y_store", "a_read", "h_read"}

StoreCallFails(p) ==
  /\ pc[p] \in AwaitPoints
  /\ Goto(p, "failed")
  /\ loc' = [loc EXCEPT ![p].err = "StoreUnavailable"]
  /\ UNCHANGED <<store, op, nextKey, cfg, splits, calls, now>>

\* The caller takes the result or the exception; the locals are gone.
Return(p) ==
  /\ pc[p] \in {"done", "failed"}
  /\ Goto(p, "idle")
  /\ loc' = [loc EXCEPT ![p] = NoLoc]
  /\ UNCHANGED <<store, op, nextKey, cfg, splits, calls, now>>

\* What the message of the Error a failed call throws is built from: the
\* wallet id (rotation.service.ts 34, 131, 538), the wallet id and version
\* (627), the threshold, the number of shares fetched and the indices that
\* failed (share-manager.service.ts 126-129), and otherwise the name or
\* message of the error of the store or of the library (597, 629, 655;
\* signing.service.ts 73, 119).
ErrorMessage(l) ==
  CASE l.err = "WalletNotFound" -> [text |-> l.err, walletId |-> l.w]
    [] l.err = "VersionNotFound" ->
         [text |-> l.err, walletId |-> l.w, version |-> l.ver]
    [] l.err = "InsufficientShares" ->
         [text |-> l.err, threshold |-> cfg.required,
          got |-> Len(l.retrieved), errors |-> l.errors]
    [] OTHER -> [text |-> l.err]

\* ---------------------------------------------------------- specification
EmptyStore == <<>>

\* A wallet that predates versioning: its key under the bare wallet id
\* (unnamed/part_001 line 25), with or without a public-key entry.
LegacyStore(w) == StorePrivateKey(EmptyStore, w, LegacyKey)
LegacyStoreWithPub(w) ==
  StorePublicKeyMetadata(LegacyStore(w), w, Hex0x(PubOf(LegacyKey)), "standard")

DefaultCfg == [required |-> DefaultRequired, total |-> DefaultTotal]

InitCalls ==
  /\ pc = [p \in Procs |-> "idle"]
  /\ op = [p \in Procs |-> "none"]
  /\ loc = [p \in Procs |-> NoLoc]
  /\ nextKey = 1
  /\ splits = <<>>
  /\ calls = 0
  /\ now = Time(0, 0)

Init ==
  /\ InitCalls
  /\ cfg = DefaultCfg
  /\ \E w \in WalletIds :
       store \in {EmptyStore, LegacyStore(w), LegacyStoreWithPub(w)}

Next ==
  \E p \in Procs :
    \/ \E w \in WalletIds : CallGenerateWallet(p, w)
    \/ GenStoreKey(p)
    \/ GenStorePub(p)
    \/ GenStoreLedger(p)
    \/ \E w \in WalletIds : CallRotateWallet(p, w)
    \/ RotRead(p)
    \/ RotStoreKey(p)
    \/ RotStorePub(p)
    \/ RotStoreLedger(p)
    \/ \E w \in WalletIds, v \in 1..MaxVersion : CallDeleteOldVersion(p, w, v)
    \/ DelRead(p)
    \/ DelStore(p)
    \/ \E w \in WalletIds : CallMigrateLegacyWallet(p, w)
    \/ MigRead(p)
    \/ MigGetKey(p)
    \/ MigGetPub(p)
    \/ MigStoreKey(p)
    \/ MigStoreLedger(p)
    \/ \E w \in WalletIds, m \in Messages : CallSignMessage(p, w, m)
    \/ SignRead(p)
    \/ SignGetKey(p)
    \/ \E w \in WalletIds : CallGetPublicKey(p, w)
    \/ PkRead(p)
    \/ PkMeta(p)
    \/ PkGetKey(p)
    \/ PkStore(p)
    \/ \E w \in WalletIds : CallGetActiveVersion(p, w)
    \/ AvRead(p)
    \/ AvGetKey(p)
    \/ \E w \in WalletIds : CallGetRotationHistory(p, w)
    \/ HistRead(p)
    \/ StoreCallFails(p)
    \/ Return(p)

Spec == Init /\ [][Next]_vars

\* ------------------------------------------------------ threshold wallets
\* mpc.config.ts 8-9: any threshold secrets.share accepts.
ValidCfgs ==
  {c \in [required : 2..MaxTotal, total : 2..MaxTotal] : c.required <= c.total}

InitMPC ==
  /\ InitCalls
  /\ cfg \in ValidCfgs
  /\ store = EmptyStore

NextMPC ==
  \E p \in Procs :
    \/ \E w \in WalletIds : CallGenerateMPCWallet(p, w)
    \/ MpcStoreShare(p)
    \/ MpcStorePub(p)
    \/ \E w \in WalletIds, k \in Requests : CallRetrieveAndCombineShares(p, w, k)
    \/ FetchShare(p)
    \/ CombineShares(p)
    \/ \E w \in WalletIds, m \in Messages : CallSignMessageMPC(p, w, m)
    \/ \E w \in WalletIds : CallGetPublicKeyMPC(p, w)
    \/ PkMetaMPC(p)
    \/ PkStoreMPC(p)
    \/ StoreCallFails(p)
    \/ Return(p)

SpecMPC == InitMPC /\ [][NextMPC]_vars

\* ------------------------------------------- splitting under any threshold
\* mpc.config.ts 8-9 takes the threshold from the environment unchecked.
AnyCfgs ==
  [required : 0..(MaxTotal + 1), total : (0..MaxTotal) \cup {MaxShares + 1}]

InitSplit ==
  /\ InitCalls
  /\ cfg \in AnyCfgs
  /\ store = EmptyStore

NextSplit ==
  \E p \in Procs :
    \/ \E w \in WalletIds : CallGenerateMPCWallet(p, w)
    \/ MpcStoreShare(p)
    \/ MpcStorePub(p)
    \/ StoreCallFails(p)
    \/ Return(p)

SpecSplit == InitSplit /\ [][NextSplit]_vars

\* ------------------------------------------------- share retrieval alone
\* The store after a generateMPCWallet(w) that stored its first m shares.
SharesStored(w, shares, m) ==
  [name \in {PrivateKeyName(ShareId(w, i)) : i \in 1..m} |->
     LET i == CHOOSE j \in 1..m : PrivateKeyName(ShareId(w, j)) = name
     IN [encryptedPrivateKey |-> EncryptData(shares[i]), walletId |-> ShareId(w, i)]]

\* retrieveAndCombineShares calls on a wallet whose generation stored all
\* of its shares or failed after some of them.
InitRetrieve ==
  /\ pc = [p \in Procs |-> "idle"]
  /\ op = [p \in Procs |-> "none"]
  /\ loc = [p \in Procs |-> NoLoc]
  /\ cfg \in ValidCfgs
  /\ \E w \in WalletIds, m \in 0..cfg.total :
       LET coeffs == [j \in 1..(cfg.required - 1) |-> MaxCoeff]
           shares == SecretsShare(1, cfg.total, cfg.required, coeffs)
       IN
         /\ splits = (1 :> shares)
         /\ store = SharesStored(w, shares, m)
  /\ nextKey = 2
  /\ calls = 0
  /\ now = Time(0, 0)

NextRetrieve ==
  \E p \in Procs :
    \/ \E w \in WalletIds, k \in Requests : CallRetrieveAndCombineShares(p, w, k)
    \/ FetchShare(p)
    \/ CombineShares(p)
    \/ Return(p)

\* Every awaited fetch resolves or rejects, and the code after the scan
\* runs: a call that can take its next step takes it.
SpecRetrieve ==
  /\ InitRetrieve
  /\ [][NextRetrieve]_vars
  /\ \A p \in Procs : WF_vars(FetchShare(p)) /\ WF_vars(CombineShares(p))

\* ------------------------------------------------------------ secret names
\* Wallet ids are any non-empty string the caller sends (index.ts 51-57).
NamedIds ==
  {<<"a">>, <<"b">>, <<"a", "-v", "1">>, <<"a", "-version">>,
   <<"mpc-share-", "a", "-", "1">>}

\* The logical records the services keep in the store.
Records ==
  [kind : {"versionedKey", "publicKey"}, w : NamedIds, n : 1..MaxVersion]
    \cup [kind : {"share"}, w : NamedIds, n : 1..MaxTotal]
    \cup [kind : {"legacyKey", "ledger", "mpcPublicKey"}, w : NamedIds, n : {0}]

\* The secret name each record is stored under.
NameOf(r) ==
  CASE r.kind = "legacyKey" -> PrivateKeyName(r.w)
    [] r.kind = "share" -> PrivateKeyName(ShareId(r.w, r.n))
    [] r.kind = "versionedKey" -> VersionedKeyName(r.w, r.n)
    [] r.kind = "ledger" -> LedgerName(r.w)
    [] r.kind = "publicKey" -> PublicKeyName(VersionedId(r.w, r.n))
    [] r.kind = "mpcPublicKey" -> PublicKeyName(r.w)

\* A service writes record r: CreateSecret, PutSecretValue when the name
\* is taken.  The store keeps which record each name holds.
WriteRecord(r) ==
  /\ calls < MaxWrites
  /\ calls' = calls + 1
  /\ store' = Put(store, NameOf(r), r)
  /\ UNCHANGED <<pc, op, loc, nextKey, cfg, splits, now>>

InitNames ==
  /\ InitCalls
  /\ cfg = DefaultCfg
  /\ store = EmptyStore

NextNames == \E r \in Records : WriteRecord(r)

SpecNames == InitNames /\ [][NextNames]_vars

\* ------------------------------------------- rotation racing with signing
\* The store after generateWallet(w) and u - 1 completed rotations, the
\* key pairs numbered in the order they were generated.
RECURSIVE WalletAtVersion(_, _)
WalletAtVersion(w, u) ==
  IF u = 0 THEN EmptyStore
  ELSE IF u = 1 THEN
    StoreWalletVersionMetadata(
      StorePublicKeyMetadata(StoreVersionedPrivateKey(EmptyStore, w, 1, 1),
                             VersionedId(w, 1), Hex0x(PubOf(1)), "standard"),
      InitialLedger(w, Hex0x(PubOf(1))))
  ELSE LET st == WalletAtVersion(w, u - 1)
           md == GetWalletVersionMetadata(st, w)
       IN RotateStep5(RotateStep4(RotateStep3(st, md, u), md, u), md, u,
                      Time(0, 0), ExpiryOf(Time(0, 0)))

Rotator == "p1"
Signer == "p2"

\* One rotateWallet(w) and one signMessage(w, m) in flight together, on a
\* wallet at any version (or on no wallet at all).
InitRace ==
  \E w \in WalletIds, u \in 0..(MaxVersion - 1), m \in Messages :
    /\ store = WalletAtVersion(w, u)
    /\ nextKey = u + 1
    /\ pc = [p \in Procs |-> IF p = Rotator THEN "r_read" ELSE "s_read"]
    /\ op = [p \in Procs |-> IF p = Rotator THEN "rotateWallet" ELSE "signMessage"]
    /\ loc = [p \in Procs |-> IF p = Rotator THEN [NoLoc EXCEPT !.w = w]
                              ELSE [NoLoc EXCEPT !.w = w, !.msg = m]]
    /\ cfg = DefaultCfg
    /\ splits = <<>>
    /\ calls = Cardinality(Procs)
    /\ now = Time(0, 0)

NextRace ==
  \E p \in Procs :
    \/ RotRead(p)
    \/ RotStoreKey(p)
    \/ RotStorePub(p)
    \/ RotStoreLedger(p)
    \/ SignRead(p)
    \/ SignGetKey(p)
    \/ StoreCallFails(p)

SpecRace == InitRace /\ [][NextRace]_vars

\* ------------------------------------------- cleanup, rotation and the clock
\* Time passes a grace period at a time.
Tick ==
  /\ now.day < MaxDays
  /\ now' = AddDays(now, GracePeriodDays)
  /\ UNCHANGED <<store, pc, op, loc, nextKey, cfg, splits, calls>>

\* deleteOldVersion and rotateWallet calls on a wallet that has been
\* generated and perhaps rotated, while time passes.
InitSweep ==
  /\ \E w \in WalletIds, u \in 1..(MaxVersion - 1) :
       /\ store = WalletAtVersion(w, u)
       /\ nextKey = u + 1
  /\ pc = [p \in Procs |-> "idle"]
  /\ op = [p \in Procs |-> "none"]
  /\ loc = [p \in Procs |-> NoLoc]
  /\ cfg = DefaultCfg
  /\ splits = <<>>
  /\ calls = 0
  /\ now = Time(0, 0)

NextSweep ==
  \/ \E p \in Procs :
       \/ \E w \in WalletIds : CallRotateWallet(p, w)
       \/ RotRead(p)
       \/ RotStoreKey(p)
       \/ RotStorePub(p)
       \/ RotStoreLedger(p)
       \/ \E w \in WalletIds, v \in 1..MaxVersion : CallDeleteOldVersion(p, w, v)
       \/ DelRead(p)
       \/ DelStore(p)
       \/ StoreCallFails(p)
       \/ Return(p)
  \/ Tick

SpecSweep == InitSweep /\ [][NextSweep]_vars

\* ------------------------------------------------- rotations of one wallet
\* rotateWallet calls, one after the other or overlapping, on a wallet that
\* has been generated and perhaps rotated.
NextRotations ==
  \E p \in Procs :
    \/ \E w \in WalletIds : CallRotateWallet(p, w)
    \/ RotRead(p)
    \/ RotStoreKey(p)
    \/ RotStorePub(p)
    \/ RotStoreLedger(p)
    \/ StoreCallFails(p)
    \/ Return(p)

SpecRotations == InitSweep /\ [][NextRotations]_vars

\* ------------------------------------------------ rotations and the clock
\* The service left to itself while time passes: rotateWallet calls and
\* whatever they schedule.  Nothing in the repository calls
\* deleteOldVersion, so no such call is made here.  Calls in flight go on
\* and the clock moves.
NextGrace == NextRotations \/ Tick

SpecGrace ==
  /\ InitSweep
  /\ [][NextGrace]_vars
  /\ WF_vars(Tick)
  /\ \A p \in Procs :
       WF_vars(RotRead(p) \/ RotStoreKey(p) \/ RotStorePub(p) \/ RotStoreLedger(p))

\* ------------------------------------------------ cleanup racing with itself
\* Two deleteOldVersion(w, v) calls for the same version in flight together,
\* on a wallet at any version whose record v may already be marked deleted.
InitCleanup ==
  \E w \in WalletIds, u \in 1..MaxVersion, v \in 1..MaxVersion, swept \in BOOLEAN :
    /\ store = LET st == WalletAtVersion(w, u)
                   md == GetWalletVersionMetadata(st, w)
               IN IF swept /\ v \in DOMAIN md.versions
                  THEN StoreWalletVersionMetadata(st, MarkDeleted(md, v))
                  ELSE st
    /\ nextKey = u + 1
    /\ pc = [p \in Procs |-> "d_read"]
    /\ op = [p \in Procs |-> "deleteOldVersion"]
    /\ loc = [p \in Procs |-> [NoLoc EXCEPT !.w = w, !.ver = v]]
    /\ cfg = DefaultCfg
    /\ splits = <<>>
    /\ calls = Cardinality(Procs)
    /\ now = Time(0, 0)

NextCleanup ==
  \E p \in Procs :
    \/ DelRead(p)
    \/ DelStore(p)
    \/ StoreCallFails(p)

SpecCleanup == InitCleanup /\ [][NextCleanup]_vars

\* ------------------------------------------------------------------ claims
WalletLedger(w) == GetWalletVersionMetadata(store, w)

\* C1 (as stated): whenever a wallet's ledger exists, exactly one version
\* record has status 'active', and it is versions[currentVersion].
C1_ExactlyOneActive ==
  \A w \in WalletIds :
    IsLedger(WalletLedger(w)) =>
      ActiveVersions(WalletLedger(w)) = {WalletLedger(w).currentVersion}

\* What the commit of a rotation from ledger md with key sk must leave in
\* the store st and return as r.
RotationPost(st, md, sk, r) ==
  LET v == md.currentVersion
      L == GetWalletVersionMetadata(st, md.walletId)
  IN /\ L.currentVersion = v + 1
     /\ DOMAIN L.versions = DOMAIN md.versions \cup {v + 1}
     /\ L.versions[v + 1] = [publicKey |-> Hex0x(PubOf(sk)), status |-> "active"]
     /\ L.versions[v].publicKey = md.versions[v].publicKey
     /\ L.versions[v].status = "deprecated"
     /\ \A u \in DOMAIN md.versions \ {v, v + 1} : L.versions[u] = md.versions[u]
     /\ r.oldVersion = v
     /\ r.newVersion = v + 1
     /\ r.oldPublicKey = md.versions[v].publicKey
     /\ r.gracePeriodDays = 30

\* C2: the step that completes rotateWallet(w), called on a ledger whose
\* currentVersion is v, leaves the stored ledger with currentVersion v+1,
\* versions[v+1] active with the new public key, versions[v] deprecated and
\* every other record as read, and returns oldVersion v, newVersion v+1,
\* the public key recorded for v and gracePeriodDays 30.
C2_RotateCommit ==
  [][\A p \in Procs :
       (op[p] = "rotateWallet" /\ pc[p] = "r_ledger" /\ pc'[p] = "done")
         => RotationPost(store', loc[p].md, loc[p].key, loc'[p].res)]_vars

\* C2 witness: a rotation of a wallet with an older third record completed.
C2_Witness ==
  \E p \in Procs :
    /\ op[p] = "rotateWallet" /\ pc[p] = "done"
    /\ loc[p].res.oldVersion = 2
    /\ WalletLedger(loc[p].w).currentVersion = 3
    /\ WalletLedger(loc[p].w).versions[1].status = "deprecated"

\* C3: a rotateWallet that has generated its key and not completed, whether
\* still in flight or failed at the versioned-key, public-key or ledger
\* write, leaves readers the ledger it read: one active version, the old.
C3_FailedRotationLeavesLedger ==
  \A p \in Procs :
    (op[p] = "rotateWallet" /\ loc[p].key # 0
       /\ pc[p] \in {"r_key", "r_pub", "r_ledger", "failed"})
      => /\ WalletLedger(loc[p].w) = loc[p].md
         /\ ActiveVersions(WalletLedger(loc[p].w)) = {loc[p].md.currentVersion}

\* C3 witness: a rotation failed after the new key was stored.
C3_Witness ==
  \E p \in Procs :
    /\ op[p] = "rotateWallet" /\ pc[p] = "failed" /\ loc[p].key # 0
    /\ Exists(store, VersionedKeyName(loc[p].w, loc[p].md.currentVersion + 1))
    /\ Exists(store, PublicKeyName(VersionedId(loc[p].w, loc[p].md.currentVersion + 1)))

\* The ledger before the racing rotation and, once its key exists, the
\* ledger it commits.
PreRotation(w) ==
  IF IsLedger(loc[Rotator].md) THEN loc[Rotator].md ELSE WalletLedger(w)
PostRotation(w) ==
  StampDeprecated(StageRotation(PreRotation(w), Hex0x(PubOf(loc[Rotator].key))),
                  PreRotation(w).currentVersion,
                  loc[Rotator].rotatedAt, loc[Rotator].expiresAt)
StoredKey(w, v) == DecryptData(store[VersionedKeyName(w, v)].encryptedPrivateKey)

\* C4: signMessage racing with a rotation from version v reads the whole
\* pre-rotation or the whole post-rotation ledger, resolves v or v+1, and
\* signs with the key material stored for the version it resolved, whose
\* public key is the one the ledger it read records for that version.
C4_SignDuringRotation ==
  LET w == loc[Signer].w
      l == loc[Signer]
  IN (l.ver # 0 /\ IsLedger(PreRotation(w))) =>
       /\ l.md \in {PreRotation(w)} \cup
                   (IF pc[Rotator] = "done" THEN {PostRotation(w)} ELSE {})
       /\ l.ver = l.md.currentVersion
       /\ l.ver \in {PreRotation(w).currentVersion, PreRotation(w).currentVersion + 1}
       /\ pc[Signer] = "done" =>
            /\ l.res.signature = Hex0x(SignDetached(l.msg, StoredKey(w, l.ver)))
            /\ l.res.publicKey = l.md.versions[l.ver].publicKey
            /\ Verifies(l.res.signature[2], l.msg, l.res.publicKey[2])

\* C4 witnesses: the signer resolved the new version, and the old one after
\* the rotation had stored the new key.
C4_Witness ==
  /\ pc[Signer] = "done" /\ pc[Rotator] = "done"
  /\ loc[Signer].ver = loc[Rotator].res.newVersion
  /\ loc[Signer].res.publicKey = loc[Rotator].res.newPublicKey

\* ------------------------------------------------------ share retrieval
\* A call that has entered the scan of retrieveAndCombineShares.
Retrieving(p) ==
  /\ op[p] \in {"retrieveAndCombineShares", "signMessageMPC"}
  /\ loc[p].i > 0

ScanEnded(p) == Retrieving(p) /\ pc[p] \in {"f_combine", "done", "failed"}

FetchedIds(l) == {l.retrieved[j].id : j \in 1..Len(l.retrieved)}
FailedIds(l) == {l.errors[j] : j \in 1..Len(l.errors)}

\* C5: with needed = threshold t, a scan in which at most n - t fetches were
\* rejected ends with t shares and no insufficient-shares error, wherever
\* the rejected indices lie; every rejected index is recorded and the scan
\* goes on with the next index, so the recorded failures and the fetched
\* shares together cover exactly the indices scanned so far.
C5_ToleratesUnavailable ==
  \A p \in Procs :
    Retrieving(p) =>
      /\ FailedIds(loc[p]) \cup FetchedIds(loc[p]) = 1..(loc[p].i - 1)
      /\ Len(loc[p].errors) + Len(loc[p].retrieved) = loc[p].i - 1
      /\ (/\ ScanEnded(p)
          /\ loc[p].needed = cfg.required
          /\ Len(loc[p].errors) <= cfg.total - cfg.required)
           => /\ Len(loc[p].retrieved) = cfg.required
              /\ loc[p].err # "InsufficientShares"
              /\ (op[p] = "retrieveAndCombineShares" /\ pc[p] # "f_combine"
                    => pc[p] = "done")

\* A retrieval that succeeded although the first index and n - t indices in
\* all were unavailable.
C5_Witness ==
  \E p \in Procs :
    /\ op[p] = "retrieveAndCombineShares" /\ pc[p] = "done"
    /\ loc[p].needed = cfg.required
    /\ Len(loc[p].errors) = cfg.total - cfg.required
    /\ Len(loc[p].errors) >= 1
    /\ loc[p].errors[1] = 1

\* C6: the scan requests indices 1, 2, 3, ... in ascending order, each once;
\* it never holds more than `needed` shares; once it holds `needed` shares no
\* further fetch is issued, so the last index requested is the index of the
\* needed-th success; and when no fetch was rejected it requested exactly
\* the indices 1..needed.
C6_StopsAtNeeded ==
  \A p \in Procs :
    Retrieving(p) =>
      LET l == loc[p] IN
        /\ l.fetchLog = [j \in 1..(l.i - 1) |-> j]
        /\ Len(l.retrieved) <= l.needed
        /\ Len(l.retrieved) = l.needed
             => /\ pc[p] # "f_fetch"
                /\ l.fetchLog[Len(l.fetchLog)] = l.retrieved[l.needed].id
        /\ (ScanEnded(p) /\ l.errors = <<>> /\ l.needed <= cfg.total)
             => l.fetchLog = [j \in 1..l.needed |-> j]

\* A retrieval that stopped after two fetches with a third share left
\* unrequested.
C6_Witness ==
  \E p \in Procs :
    /\ op[p] = "retrieveAndCombineShares" /\ pc[p] = "done"
    /\ loc[p].needed = 2 /\ cfg.total = 3
    /\ loc[p].fetchLog = <<1, 2>>
    /\ Exists(store, ShareId(loc[p].w, 3))

\* A finished retrieveAndCombineShares(w, needed) call that scanned, with
\* threshold <= needed <= total.
FinishedRetrieval(p) ==
  /\ op[p] = "retrieveAndCombineShares"
  /\ Retrieving(p)
  /\ pc[p] \in {"done", "failed"}
  /\ loc[p].needed \in cfg.required..cfg.total

\* C7 as stated: for t <= needed <= n, a scan that ends with fewer than
\* `needed` fetched shares makes the call fail with an insufficient-shares
\* error and return no key.
C7_FailsBelowNeeded ==
  \A p \in Procs :
    (FinishedRetrieval(p) /\ Len(loc[p].retrieved) < loc[p].needed)
      => pc[p] = "failed" /\ loc[p].err = "InsufficientShares"

\* C7, as the code has it: for t <= needed <= n the call fails with an
\* insufficient-shares error and returns no key exactly when the scan ends
\* with fewer than t (the threshold) fetched shares; with at least t it
\* returns the key combined from the shares it fetched, even when they are
\* fewer than `needed`.
C7_FailsBelowThreshold ==
  \A p \in Procs :
    FinishedRetrieval(p) =>
      /\ Len(loc[p].retrieved) < cfg.required
           => /\ pc[p] = "failed"
              /\ loc[p].err = "InsufficientShares"
              /\ loc[p].res = <<>>
      /\ Len(loc[p].retrieved) >= cfg.required
           => /\ pc[p] = "done"
              /\ loc[p].res = [key |-> SecretsCombine(loc[p].retrieved)]

\* A call asking for more than the threshold that scanned every index and
\* failed for lack of threshold-many shares.
C7_Witness ==
  \E p \in Procs :
    /\ FinishedRetrieval(p) /\ pc[p] = "failed"
    /\ loc[p].needed > cfg.required
    /\ loc[p].i = cfg.total + 1
    /\ loc[p].retrieved # <<>>
    /\ loc[p].err = "InsufficientShares"

InSplit(share, k) == \E m \in 1..Len(splits[k]) : splits[k][m] = share

\* The shares with an id in S, in ascending order of id.
RECURSIVE SharesOf(_, _, _)
SharesOf(shares, S, m) ==
  IF m = 0 THEN <<>>
  ELSE IF m \in S THEN Append(SharesOf(shares, S, m - 1), shares[m])
  ELSE SharesOf(shares, S, m - 1)

\* C8: every set of at least t shares of one split combines to the key that
\* was split, and a retrieval that returns a key from shares that all come
\* from the split of key K returns exactly K.
C8_SplitCombineRoundTrip ==
  /\ \A k \in DOMAIN splits, S \in SUBSET (1..cfg.total) :
       Cardinality(S) >= cfg.required
         => SecretsCombine(SharesOf(splits[k], S, cfg.total)) = k
  /\ \A p \in Procs, k \in DOMAIN splits :
       (/\ op[p] = "retrieveAndCombineShares" /\ pc[p] = "done"
        /\ \A j \in 1..Len(loc[p].retrieved) : InSplit(loc[p].retrieved[j], k))
         => loc[p].res = [key |-> k]

\* A retrieval that met an unavailable index and returned the split key
\* from shares whose values differ from the key.
C8_Witness ==
  \E p \in Procs, k \in DOMAIN splits :
    /\ op[p] = "retrieveAndCombineShares" /\ pc[p] = "done"
    /\ loc[p].errors # <<>>
    /\ \A j \in 1..Len(loc[p].retrieved) :
         InSplit(loc[p].retrieved[j], k) /\ loc[p].retrieved[j].data # k
    /\ loc[p].res = [key |-> k]

AvailableShares(w) == {i \in 1..cfg.total : Exists(store, ShareId(w, i))}

\* C9: combine is invoked only on at least t fetched shares, a key is
\* returned only after combine, and a call that ends while fewer than t of
\* the n shares are in the store has failed with an insufficient-shares
\* error without combining.
C9_NoKeyBelowThreshold ==
  \A p \in Procs :
    Retrieving(p) =>
      /\ loc[p].combined => Len(loc[p].retrieved) >= cfg.required
      /\ pc[p] = "done" => loc[p].combined
      /\ (/\ pc[p] \in {"done", "failed"}
          /\ Cardinality(AvailableShares(loc[p].w)) < cfg.required)
           => /\ pc[p] = "failed"
              /\ loc[p].err = "InsufficientShares"
              /\ ~loc[p].combined

\* A call that scanned every index, fetched one share fewer than the
\* threshold, and failed.
C9_Witness ==
  \E p \in Procs :
    /\ Retrieving(p) /\ pc[p] = "failed"
    /\ loc[p].needed = cfg.required
    /\ Len(loc[p].retrieved) = cfg.required - 1
    /\ loc[p].i = cfg.total + 1
    /\ ~loc[p].combined

\* C10: when signMessage or signMessageMPC has ended, by a return or by an
\* exception, after its key-material buffer was filled, the buffer has been
\* overwritten with zeros.
C10_KeyZeroedOnExit ==
  \A p \in Procs :
    (/\ op[p] \in {"signMessage", "signMessageMPC"}
     /\ pc[p] \in {"done", "failed"}
     /\ loc[p].buf # "none")
      => loc[p].buf = "zeroed"

\* ------------------------------------------------------------- signing
\* The public-key entry generateMPCWallet wrote for w, <<>> when none.
MpcPublicKey(w) ==
  IF Exists(store, PublicKeyName(w)) THEN store[PublicKeyName(w)].publicKey ELSE <<>>

\* C11: a completed signMessage on a wallet with a ledger, or a completed
\* signMessageMPC on a wallet whose generation stored its public key,
\* returns a signature over the message that verifies against the returned
\* publicKey, and that publicKey is the one the wallet records for its
\* active version (from generation or from the latest rotation).
C11_SignMatchesActiveKey ==
  \A p \in Procs :
    /\ (op[p] = "signMessage" /\ pc[p] = "done" /\ IsLedger(loc[p].md))
         => /\ Verifies(loc[p].res.signature[2], loc[p].msg, loc[p].res.publicKey[2])
            /\ loc[p].res.publicKey = loc[p].md.versions[loc[p].ver].publicKey
    /\ (op[p] = "signMessageMPC" /\ pc[p] = "done" /\ MpcPublicKey(loc[p].w) # <<>>)
         => /\ Verifies(loc[p].res.signature[2], loc[p].msg, loc[p].res.publicKey[2])
            /\ loc[p].res.publicKey = MpcPublicKey(loc[p].w)

\* ---------------------------------------------------------- public keys
GettingPublicKey(p) == op[p] \in {"getPublicKey", "getPublicKeyMPC"}

\* The cache entry a getPublicKey call looks up.
CacheEntryOf(p) ==
  PublicKeyName(IF op[p] = "getPublicKey"
                  THEN VersionedId(loc[p].w, loc[p].ver) ELSE loc[p].w)

\* C12: a getPublicKey call that found a cache entry in the store for the
\* version it resolved reads no key material and fetches no share; a call
\* that found none and returned has reconstructed the key material and left
\* a cache entry behind for the next call.
C12_CacheHitReadsNoKey ==
  \A p \in Procs :
    GettingPublicKey(p) =>
      /\ loc[p].cached
           => /\ loc[p].buf = "none"
              /\ loc[p].fetchLog = <<>>
              /\ pc[p] \in {"done", "idle"}
      /\ (pc[p] = "done" /\ ~loc[p].cached)
           => /\ loc[p].buf = "zeroed"
              /\ Exists(store, CacheEntryOf(p))

\* In store st, the cache entry under id holds the public key of the key
\* material stored under keyName.
CacheHolds(st, id, keyName) ==
  /\ Exists(st, PublicKeyName(id))
  /\ Exists(st, keyName)
  /\ st[PublicKeyName(id)].publicKey
       = Hex0x(PubOf(DecryptData(st[keyName].encryptedPrivateKey)))

Succeeds(p, name) == op[p] = name /\ pc[p] # "done" /\ pc'[p] = "done"

\* C13: at the step in which generateWallet or rotateWallet succeeds, the
\* cache entry <walletId>-v<version> of the version it made active exists
\* and holds the public key derived from the key material stored for that
\* version; when generateMPCWallet succeeds, the entry <walletId> exists
\* and holds the public key of the key it split.
C13_CacheWrittenThrough ==
  [][\A p \in Procs :
       /\ Succeeds(p, "generateWallet")
            => CacheHolds(store', VersionedId(loc[p].w, 1),
                          VersionedKeyName(loc[p].w, 1))
       /\ Succeeds(p, "rotateWallet")
            => CacheHolds(store', VersionedId(loc[p].w, loc'[p].res.newVersion),
                          VersionedKeyName(loc[p].w, loc'[p].res.newVersion))
       /\ Succeeds(p, "generateMPCWallet")
            => /\ Exists(store', PublicKeyName(loc[p].w))
               /\ store'[PublicKeyName(loc[p].w)].publicKey = Hex0x(PubOf(loc[p].key))
    ]_vars

\* ------------------------------------------------------------- rotation
\* C14: a rotateWallet call whose ledger read finds no ledger fails at that
\* step with a wallet-not-found error (or with the store's error when the
\* read itself is rejected), generates no key and writes nothing to the
\* store; a call that failed with wallet-not-found holds no key.
C14_RotateUnknownWallet ==
  [][\A p \in Procs :
       /\ (/\ op[p] = "rotateWallet" /\ pc[p] = "r_read" /\ pc'[p] # "r_read"
           /\ ~Exists(store, LedgerName(loc[p].w)))
            => /\ pc'[p] = "failed"
               /\ loc'[p].err \in {"WalletNotFound", "StoreUnavailable"}
               /\ loc'[p].key = 0
               /\ store' = store
               /\ nextKey' = nextKey
       /\ (op[p] = "rotateWallet" /\ loc'[p].err = "WalletNotFound")
            => /\ pc'[p] = "failed" /\ loc'[p].key = 0 /\ loc'[p].buf = "none"
               /\ pc[p] = "r_read" => ~Exists(store', LedgerName(loc[p].w))
    ]_vars

\* A rotation refused with wallet-not-found while the wallet's legacy key
\* is in the store and no ledger, versioned key or cache entry is.
C14_Witness ==
  \E p \in Procs :
    /\ op[p] = "rotateWallet" /\ pc[p] = "failed"
    /\ loc[p].err = "WalletNotFound"
    /\ DOMAIN store = {PrivateKeyName(loc[p].w)}

\* The rotation history of wallet w in store st, <<>> without a ledger.
HistoryIn(st, w) == GetWalletVersionMetadata(st, w).rotationHistory

IsPrefix(s, t) == Len(s) <= Len(t) /\ SubSeq(t, 1, Len(s)) = s

\* C15: rotationHistory is append-only: every step leaves the events
\* already stored for a wallet in place, in order and unmodified, and the
\* step in which rotateWallet(w) from version v succeeds appends exactly the
\* one event {fromVersion: v, toVersion: v + 1} at the end.
C15_HistoryAppendOnly ==
  [][/\ \A w \in WalletIds : IsPrefix(HistoryIn(store, w), HistoryIn(store', w))
     /\ \A p \in Procs :
          Succeeds(p, "rotateWallet")
            => HistoryIn(store', loc[p].w)
                 = Append(HistoryIn(store, loc[p].w),
                          [fromVersion |-> loc[p].md.currentVersion,
                           toVersion |-> loc[p].md.currentVersion + 1])
    ]_vars

\* C16: the step that completes rotateWallet(w) leaves the record of the
\* previous version deprecated, with the expiresAt stored on it exactly 30
\* days after the rotatedAt stored on it.
C16_ExpiryIsThirtyDays ==
  [][\A p \in Procs :
       Succeeds(p, "rotateWallet") =>
         LET r == GetWalletVersionMetadata(store', loc[p].w).versions[loc[p].md.currentVersion]
         IN /\ r.status = "deprecated"
            /\ r.expiresAt = AddDays(r.rotatedAt, 30)]_vars

\* C17: getActiveVersion(w) writes nothing to the store.  When the ledger
\* read finds a ledger, the call returns its currentVersion; when it finds
\* none, the call returns 1 only if the legacy key of w is in the store, and
\* fails with wallet-not-found when that key is absent.  A wallet-not-found
\* failure comes only after a ledger read that found none.  (A rejected
\* ledger read fails the call with the store's error.)
C17_ActiveVersion ==
  [][\A p \in Procs :
       (op[p] = "getActiveVersion" /\ pc'[p] # pc[p]) =>
         LET md == GetWalletVersionMetadata(store, loc[p].w)
             legacy == Exists(store, PrivateKeyName(loc[p].w))
         IN /\ store' = store
            /\ (pc[p] = "a_read" /\ IsLedger(md)) =>
                 \/ pc'[p] = "done" /\ loc'[p].res = md.currentVersion
                 \/ pc'[p] = "failed" /\ loc'[p].err = "StoreUnavailable"
            /\ (pc[p] = "a_read" /\ ~IsLedger(md)) =>
                 \/ pc'[p] = "a_key"
                 \/ pc'[p] = "failed" /\ loc'[p].err = "StoreUnavailable"
            /\ (pc[p] = "a_key" /\ pc'[p] = "done") => (loc'[p].res = 1 /\ legacy)
            /\ (pc[p] = "a_key" /\ ~legacy) =>
                 (pc'[p] = "failed" /\ loc'[p].err = "WalletNotFound")
            /\ (pc'[p] = "failed" /\ loc'[p].err = "WalletNotFound") =>
                 ~IsLedger(loc[p].md)]_vars

\* C17 witness: version 1 was returned for a legacy wallet with no ledger.
C17_Witness ==
  \E p \in Procs :
    /\ op[p] = "getActiveVersion" /\ pc[p] = "done" /\ loc[p].res = 1
    /\ ~IsLedger(GetWalletVersionMetadata(store, loc[p].w))
    /\ Exists(store, PrivateKeyName(loc[p].w))

\* Position of a status on the path active -> deprecated -> deleted.
StatusRank(s) == CASE s = "active" -> 1 [] s = "deprecated" -> 2 [] s = "deleted" -> 3

\* C18: no step moves the stored status of a (walletId, version) record
\* backwards along active -> deprecated -> deleted; in particular a record
\* marked deleted is never deprecated or active afterwards.
C18_StatusMovesForward ==
  [][\A w \in WalletIds :
       LET L == GetWalletVersionMetadata(store, w)
           M == GetWalletVersionMetadata(store', w)
       IN (IsLedger(L) /\ IsLedger(M)) =>
            \A v \in DOMAIN L.versions \cap DOMAIN M.versions :
              StatusRank(M.versions[v].status) >= StatusRank(L.versions[v].status)]_vars

\* C19: a step that takes the stored status of a version record to
\* 'deleted' takes it from 'deprecated', at a time that is not before the
\* expiresAt stored on the record: an active record is never deleted, nor a
\* deprecated one inside its grace period.
C19_DeleteOnlyExpired ==
  [][\A w \in WalletIds :
       LET L == GetWalletVersionMetadata(store, w)
           M == GetWalletVersionMetadata(store', w)
       IN (IsLedger(L) /\ IsLedger(M)) =>
            \A v \in DOMAIN L.versions \cap DOMAIN M.versions :
              (L.versions[v].status # "deleted" /\ M.versions[v].status = "deleted") =>
                /\ L.versions[v].status = "deprecated"
                /\ "expiresAt" \in DOMAIN L.versions[v]
                /\ ~Before(now, L.versions[v].expiresAt)]_vars

\* The deleteOldVersion calls that have written their ledger.
Swept == {p \in Procs : op[p] = "deleteOldVersion" /\ pc[p] = "done" /\ IsLedger(loc[p].md)}

\* C20: with only deleteOldVersion(w, v) calls for one (w, v) running, the
\* write of each call leaves the stored ledger as it was but for record v
\* being 'deleted', so it changes nothing when v was already 'deleted';
\* and once both calls have written, the stored ledger is the one each call
\* on its own made of the ledger it read.
C20_CleanupIdempotent ==
  [][\A p \in Procs :
       (op[p] = "deleteOldVersion" /\ pc[p] = "d_store" /\ pc'[p] = "done") =>
         LET L == GetWalletVersionMetadata(store, loc[p].w)
             M == GetWalletVersionMetadata(store', loc[p].w)
             v == loc[p].ver
         IN /\ M = [L EXCEPT !.versions[v].status = "deleted"]
            /\ L.versions[v].status = "deleted" => store' = store
            /\ \A q \in Swept : M = loc[q].md]_vars

\* C20 witness: both calls have written the ledger of a rotated wallet, and
\* the deprecated record they named is deleted.
C20_Witness ==
  /\ Swept = Procs
  /\ \E p \in Procs :
       LET L == WalletLedger(loc[p].w) IN
         /\ L.currentVersion > loc[p].ver
         /\ L.versions[loc[p].ver].status = "deleted"
         /\ L.versions[L.currentVersion].status = "active"

\* C21: a generateWallet(w) that completes leaves a ledger with version 1
\* as its only and active version and an empty rotation history; while w
\* has a ledger, no step of generateWallet(w) changes the store and none
\* completes the call.
C21_GenerateOnce ==
  [][\A p \in Procs :
       (op[p] = "generateWallet" /\ pc'[p] # pc[p]) =>
         LET L == GetWalletVersionMetadata(store, loc[p].w)
             M == GetWalletVersionMetadata(store', loc[p].w)
         IN /\ IsLedger(L) => (store' = store /\ pc'[p] # "done")
            /\ pc'[p] = "done" =>
                 /\ M.currentVersion = 1
                 /\ DOMAIN M.versions = {1}
                 /\ M.versions[1].status = "active"
                 /\ M.rotationHistory = <<>>]_vars

\* C22: a migrateLegacyWallet(w) whose ledger read finds a ledger ends
\* there, returning (or failing with the store's error when the read is
\* rejected), and neither that step nor the return changes the store: the
\* ledger, the keys and the public-key entries stay as they are.
C22_MigrateExistingNoOp ==
  [][\A p \in Procs :
       (op[p] = "migrateLegacyWallet" /\ pc'[p] # pc[p]) =>
         /\ (pc[p] = "m_read" /\ IsLedger(GetWalletVersionMetadata(store, loc[p].w))) =>
              /\ store' = store
              /\ \/ pc'[p] = "done"
                 \/ pc'[p] = "failed" /\ loc'[p].err = "StoreUnavailable"
         /\ pc[p] \in {"done", "failed"} => (store' = store /\ pc'[p] = "idle")]_vars

\* C22 witness: a migration returned without reading the legacy key, on a
\* wallet whose ledger is at version 2.
C22_Witness ==
  \E p \in Procs :
    /\ op[p] = "migrateLegacyWallet" /\ pc[p] = "done"
    /\ loc[p].key = NoLoc.key
    /\ WalletLedger(loc[p].w).currentVersion = 2

\* C23: migrateLegacyWallet(w) on a legacy wallet, its key stored under the
\* bare wallet id and no ledger, does not fail (but for a rejected store
\* call); the step that completes it leaves a ledger with currentVersion 1,
\* version 1 active and an empty rotation history; and no step of it
\* changes the legacy key entry.
C23_MigrateLegacy ==
  [][\A p \in Procs :
       (op[p] = "migrateLegacyWallet" /\ pc'[p] # pc[p]) =>
         LET w == loc[p].w
             M == GetWalletVersionMetadata(store', w)
         IN /\ (/\ pc'[p] = "failed"
                /\ Exists(store, PrivateKeyName(w))
                /\ ~IsLedger(GetWalletVersionMetadata(store, w)))
                 => loc'[p].err = "StoreUnavailable"
            /\ (pc[p] = "m_ledger" /\ pc'[p] = "done") =>
                 /\ M.currentVersion = 1
                 /\ M.versions[1].status = "active"
                 /\ M.rotationHistory = <<>>
            /\ Exists(store, PrivateKeyName(w)) =>
                 /\ Exists(store', PrivateKeyName(w))
                 /\ store'[PrivateKeyName(w)] = store[PrivateKeyName(w)]]_vars

\* C24: no step of retrieveAndCombineShares, from the call to the return of
\* the key or of the failure, changes the store: every share, key, ledger
\* and public-key entry is as it was.
C24_RetrieveWritesNothing ==
  [][\A p \in Procs :
       (pc'[p] # pc[p] /\ "retrieveAndCombineShares" \in {op[p], op'[p]}
          /\ (pc[p] = "idle" => op'[p] = "retrieveAndCombineShares"))
         => store' = store]_vars

\* C24 witness: a retrieval has returned the key of a wallet whose shares
\* are all still stored.
C24_Witness ==
  \E p \in Procs :
    /\ op[p] = "retrieveAndCombineShares" /\ pc[p] = "done" /\ loc[p].combined
    /\ \A i \in 1..cfg.total : Exists(store, PrivateKeyName(ShareId(loc[p].w, i)))

\* C25: a call retrieveAndCombineShares(w, r) with a requested count r
\* below the threshold fails at once with an insufficient-shares error,
\* with no share fetch issued.
C25_RejectsBelowThreshold ==
  [][\A p \in Procs, w \in WalletIds, k \in Requests :
       (k # <<>> /\ k[1] < cfg.required /\ CallRetrieveAndCombineShares(p, w, k)) =>
         /\ pc'[p] = "failed"
         /\ loc'[p].err = "InsufficientShares"
         /\ loc'[p].fetchLog = <<>>]_vars

\* C26: with a configured (t, n) that does not satisfy 2 <= t <= n <= 255,
\* generateMPCWallet (through generateAndStoreShares) fails with an
\* invalid-threshold error and no share is ever stored; with one that
\* does, the call does not fail with that error.
C26_InvalidThreshold ==
  [][\A p \in Procs, w \in WalletIds :
       LET valid == 2 <= cfg.required /\ cfg.required <= cfg.total /\ cfg.total <= 255 IN
         /\ CallGenerateMPCWallet(p, w) =>
              IF valid THEN pc'[p] = "x_share"
              ELSE pc'[p] = "failed" /\ loc'[p].err = "InvalidThreshold"
         /\ ~valid => \A i \in 1..MaxTotal :
                        ~Exists(store', PrivateKeyName(ShareId(w, i)))]_vars

\* C26 witness: a split with the threshold above the number of shares was
\* refused.
C26_Witness ==
  \E p \in Procs :
    /\ op[p] = "generateMPCWallet" /\ pc[p] = "failed"
    /\ loc[p].err = "InvalidThreshold"
    /\ cfg.required > cfg.total /\ cfg.required >= 2
    /\ store = EmptyStore

\* C27: two different logical records (different kind, wallet, version or
\* share index) never have the same secret name: a write of one record
\* replaces nothing but an earlier value of that same record, and every
\* name in the store holds the record it is the name of.
C27_DistinctNamespaces ==
  [][\A r \in Records :
       WriteRecord(r) =>
         /\ Exists(store, NameOf(r)) => store[NameOf(r)] = r
         /\ \A q \in Records \ {r} : NameOf(q) # NameOf(r)]_vars

\* C28: for threshold wallets the store holds nothing but shares and
\* public-key entries: every entry is the public-key entry of a wallet or
\* the entry of one of its share indices 1..n, holding the share of that
\* index from a split of a generated key, never the key; and a completed
\* generateMPCWallet(w) has left all n share entries and the public-key
\* entry of w.
C28_OnlySharesPersisted ==
  /\ \A name \in DOMAIN store :
       \E w \in WalletIds :
         \/ /\ name = PublicKeyName(w)
            /\ DOMAIN store[name] = {"publicKey", "walletType"}
         \/ \E i \in 1..cfg.total :
              /\ name = PrivateKeyName(ShareId(w, i))
              /\ \E k \in DOMAIN splits :
                   DecryptData(store[name].encryptedPrivateKey) = splits[k][i]
  /\ \A p \in Procs :
       (op[p] = "generateMPCWallet" /\ pc[p] = "done") =>
         DOMAIN store =
           {PublicKeyName(loc[p].w)}
             \cup {PrivateKeyName(ShareId(loc[p].w, i)) : i \in 1..cfg.total}

\* C28 witness: a threshold wallet with three shares has been generated.
C28_Witness ==
  \E p \in Procs :
    /\ op[p] = "generateMPCWallet" /\ pc[p] = "done"
    /\ cfg.total = 3
    /\ Cardinality(DOMAIN store) = 4

\* C29: a stored share never changes and never goes away: whatever step is
\* taken, the entry of share i of wallet w, once in the store, is still
\* there with the same value.
C29_SharesImmutable ==
  [][\A w \in WalletIds, i \in 1..MaxTotal :
       LET name == PrivateKeyName(ShareId(w, i)) IN
         Exists(store, name) =>
           (Exists(store', name) /\ store'[name] = store[name])]_vars

\* C30: no step of a rotateWallet(w) call that found the ledger at version
\* v deletes or changes the stored key or the public-key entry of version v
\* or of an earlier version: each is still there with the same value.
C30_RotationKeepsOldKeys ==
  [][\A p \in Procs :
       (op[p] = "rotateWallet" /\ pc'[p] # pc[p]) =>
         LET w == loc[p].w
             v == IF pc[p] = "r_read"
                    THEN GetWalletVersionMetadata(store, w).currentVersion
                    ELSE loc[p].md.currentVersion
         IN \A u \in 1..v :
              \A name \in {VersionedKeyName(w, u), PublicKeyName(VersionedId(w, u))} :
                Exists(store, name) =>
                  (Exists(store', name) /\ store'[name] = store[name])]_vars

\* C30 witness: a rotation from version 2 has completed and the keys and
\* public-key entries of versions 1 and 2 are in the store.
C30_Witness ==
  \E p \in Procs :
    /\ op[p] = "rotateWallet" /\ pc[p] = "done"
    /\ loc[p].md.currentVersion = 2
    /\ \A u \in 1..3 :
         /\ Exists(store, VersionedKeyName(loc[p].w, u))
         /\ Exists(store, PublicKeyName(VersionedId(loc[p].w, u)))
    /\ StoredKey(loc[p].w, 1) # StoredKey(loc[p].w, 2)

\* ------------------------------------------------------------ key secrecy
\* A public key or a signature as the services hand it out: 0x and the hex
\* of what nacl derived or signed.
IsPublicKey(v) == v[1] = "0x" /\ v[2][1] = "pub"
IsSignature(v) == v[1] = "0x" /\ v[2][1] = "sig"

\* A ledger document that holds wallet id, version numbers, public keys,
\* statuses, timestamps and rotation events, and nothing else.
LedgerIsPublic(md) ==
  /\ DOMAIN md = {"walletId", "currentVersion", "versions", "rotationHistory"}
  /\ md.walletId \in WalletIds
  /\ \A v \in DOMAIN md.versions :
       /\ DOMAIN md.versions[v] \subseteq {"publicKey", "status", "rotatedAt", "expiresAt"}
       /\ IsPublicKey(md.versions[v].publicKey)
  /\ \A j \in 1..Len(md.rotationHistory) :
       DOMAIN md.rotationHistory[j] = {"fromVersion", "toVersion"}

\* The value a completed call of operation name returns holds public keys,
\* signatures, wallet ids and version numbers only.
ResultIsPublic(name, r) ==
  CASE name \in {"generateWallet", "generateMPCWallet"} ->
         /\ DOMAIN r = {"walletId", "publicKey"}
         /\ IsPublicKey(r.publicKey)
    [] name = "rotateWallet" ->
         /\ DOMAIN r = {"walletId", "newVersion", "newPublicKey", "oldVersion",
                        "oldPublicKey", "gracePeriodDays"}
         /\ IsPublicKey(r.newPublicKey) /\ IsPublicKey(r.oldPublicKey)
         /\ r.newVersion \in 1..MaxVersion /\ r.oldVersion \in 1..MaxVersion
    [] name \in {"signMessage", "signMessageMPC"} ->
         /\ DOMAIN r = {"signature", "publicKey", "walletId"}
         /\ IsSignature(r.signature) /\ IsPublicKey(r.publicKey)
    [] name \in {"getPublicKey", "getPublicKeyMPC"} ->
         /\ DOMAIN r = {"publicKey"}
         /\ IsPublicKey(r.publicKey)
    [] name = "getRotationHistory" -> IsLedger(r) => LedgerIsPublic(r)
    [] OTHER -> TRUE

\* C31: what generateWallet, generateMPCWallet, rotateWallet, sign (and
\* signOrder, which is sign over the serialised payload), getPublicKey and
\* getRotationHistory return holds public keys, signatures, wallet ids and
\* version numbers and no private key or share; the message of the error a
\* failed call throws is built from the wallet id, the version, the
\* threshold, share counts and failed share indices only; and every ledger
\* and every public-key cache entry in the store holds public keys, statuses
\* and timestamps only.
C31_NoKeyMaterialLeaves ==
  /\ \A p \in Procs :
       /\ pc[p] = "done" => ResultIsPublic(op[p], loc[p].res)
       /\ pc[p] = "failed" =>
            /\ DOMAIN ErrorMessage(loc[p]) \subseteq
                 {"text", "walletId", "version", "threshold", "got", "errors"}
            /\ \A j \in 1..Len(loc[p].errors) : loc[p].errors[j] \in 1..cfg.total
  /\ \A w \in WalletIds :
       /\ Exists(store, LedgerName(w)) => LedgerIsPublic(store[LedgerName(w)])
       /\ \A id \in {w} \cup {VersionedId(w, v) : v \in 1..MaxVersion} :
            Exists(store, PublicKeyName(id)) =>
              /\ DOMAIN store[PublicKeyName(id)] = {"publicKey", "walletType"}
              /\ IsPublicKey(store[PublicKeyName(id)].publicKey)

\* C31 witness: a rotation has returned and a signature has been made while
\* the ledger and the cache entries of two versions are in the store.
C31_Witness ==
  \E p, q \in Procs :
    /\ op[p] = "rotateWallet" /\ pc[p] = "done"
    /\ op[q] = "signMessage" /\ pc[q] = "done"
    /\ Exists(store, LedgerName(loc[p].w))
    /\ Exists(store, PublicKeyName(VersionedId(loc[p].w, 2)))

\* C32: signMessage(w, m) on a legacy wallet, its key stored under the bare
\* wallet id and no ledger, resolves version 1 and, unless the store rejects
\* the read, returns a signature over m made with that legacy key; it does
\* not fail for want of a versioned key.
C32_SignLegacy ==
  [][\A p \in Procs :
       (/\ op[p] = "signMessage" /\ pc[p] = "s_key" /\ pc'[p] # pc[p]
        /\ ~IsLedger(loc[p].md)
        /\ IsString(loc[p].msg)
        /\ Exists(store, PrivateKeyName(loc[p].w)))
         => /\ loc[p].ver = 1
            /\ \/ /\ pc'[p] = "done"
                  /\ loc'[p].res.signature =
                       Hex0x(SignDetached(loc[p].msg,
                               DecryptData(store[PrivateKeyName(loc[p].w)].encryptedPrivateKey)))
               \/ pc'[p] = "failed" /\ loc'[p].err = "StoreUnavailable"]_vars

\* C33: with rotateWallet and deleteOldVersion calls on one wallet in any
\* interleaving, no step lowers the currentVersion of the stored ledger or
\* removes the ledger: a committed rotation is not undone by a later ledger
\* write.
C33_VersionMonotonic ==
  [][\A w \in WalletIds :
       LET L == GetWalletVersionMetadata(store, w)
           M == GetWalletVersionMetadata(store', w)
       IN IsLedger(L) => (IsLedger(M) /\ M.currentVersion >= L.currentVersion)]_vars

\* No call is in flight: each has returned, failed or not started.
Quiescent == \A p \in Procs : pc[p] \in {"idle", "done", "failed"}

\* C34: whenever no rotateWallet call is in flight, whatever the
\* interleaving of the calls made so far, the public key derived from the
\* stored key material of version currentVersion is the publicKey the ledger
\* records for that version and is the public key in that version's cache
\* entry.
C34_ActiveKeyConsistent ==
  \A w \in WalletIds :
    LET L == WalletLedger(w)
        v == L.currentVersion
    IN (Quiescent /\ IsLedger(L)) =>
         /\ Exists(store, VersionedKeyName(w, v))
         /\ CacheHolds(store, VersionedId(w, v), VersionedKeyName(w, v))
         /\ L.versions[v].publicKey = Hex0x(PubOf(StoredKey(w, v)))

\* C35: with rotateWallet calls on one wallet in any interleaving, the step
\* in which a call succeeds takes the stored currentVersion up by exactly
\* one and adds exactly one event to rotationHistory, no other step changes
\* the ledger, and the newVersion it returns differs from the newVersion of
\* every other successful call: so k successful rotations of a wallet at
\* version v leave currentVersion v + k and k more events.
C35_RotationsCountUp ==
  [][\A p \in Procs :
       LET L == GetWalletVersionMetadata(store, loc[p].w)
           M == GetWalletVersionMetadata(store', loc[p].w)
       IN /\ Succeeds(p, "rotateWallet") =>
               /\ M.currentVersion = L.currentVersion + 1
               /\ Len(M.rotationHistory) = Len(L.rotationHistory) + 1
               /\ loc'[p].res.newVersion = M.currentVersion
               /\ \A q \in Procs \ {p} :
                    (op[q] = "rotateWallet" /\ pc[q] = "done")
                      => loc[q].res.newVersion # loc'[p].res.newVersion
          /\ (\A q \in Procs : ~Succeeds(q, "rotateWallet")) =>
               \A w \in WalletIds :
                 GetWalletVersionMetadata(store', w) = GetWalletVersionMetadata(store, w)]_vars

\* C36: in every state, the intermediate states of generateWallet,
\* rotateWallet and migrateLegacyWallet and the states after one of them
\* failed included, a stored ledger with currentVersion v has the versioned
\* key material of (walletId, v) in the store.
C36_KeyBeforeLedger ==
  \A w \in WalletIds :
    IsLedger(WalletLedger(w)) =>
      Exists(store, VersionedKeyName(w, WalletLedger(w).currentVersion))

\* C36 witness: a rotation from version 2 failed at its ledger write, with
\* the key of version 3 stored and the ledger still at version 2.
C36_Witness ==
  \E p \in Procs :
    /\ op[p] = "rotateWallet" /\ pc[p] = "failed"
    /\ WalletLedger(loc[p].w).currentVersion = 2
    /\ Exists(store, VersionedKeyName(loc[p].w, 3))
    /\ Exists(store, PublicKeyName(VersionedId(loc[p].w, 3)))

\* The shares stored for wallet w, by index.
StoredShares(w) ==
  [i \in 1..cfg.total |->
     DecryptData(store[PrivateKeyName(ShareId(w, i))].encryptedPrivateKey)]

\* C37: whenever shares 1..n of a threshold wallet are all in the store,
\* also after a generateMPCWallet failed part-way or overlapped another for
\* the same wallet id, every t of them combine to one and the same key, and
\* the wallet's public-key entry, when there is one, holds the public key
\* of that key.
C37_SharesOfOneSplit ==
  \A w \in WalletIds :
    (\A i \in 1..cfg.total : Exists(store, PrivateKeyName(ShareId(w, i)))) =>
      LET K == SecretsCombine(SharesOf(StoredShares(w), 1..cfg.required, cfg.total))
      IN /\ \A S \in SUBSET (1..cfg.total) :
              Cardinality(S) = cfg.required
                => SecretsCombine(SharesOf(StoredShares(w), S, cfg.total)) = K
         /\ Exists(store, PublicKeyName(w)) => MpcPublicKey(w) = Hex0x(PubOf(K))

\* A retrieveAndCombineShares call that is scanning or about to combine.
InRetrieval(p) ==
  op[p] = "retrieveAndCombineShares" /\ pc[p] \in {"f_fetch", "f_combine"}

\* C38: a retrieveAndCombineShares call issues at most n share fetches,
\* each for an index in 1..n and none for an index it has tried before,
\* whether the fetches succeed or fail; it always comes to an end; and it
\* ends with a key returned or with an error raised.
C38_RetrieveTerminates ==
  /\ [](\A p \in Procs :
          op[p] = "retrieveAndCombineShares" =>
            /\ Len(loc[p].fetchLog) <= cfg.total
            /\ \A j \in 1..Len(loc[p].fetchLog) :
                 /\ loc[p].fetchLog[j] \in 1..cfg.total
                 /\ \A m \in 1..(j - 1) : loc[p].fetchLog[m] # loc[p].fetchLog[j]
            /\ pc[p] = "done" => loc[p].res = [key |-> loc[p].key]
            /\ pc[p] = "failed" => loc[p].err = "InsufficientShares")
  /\ \A p \in Procs : InRetrieval(p) ~> (pc[p] \in {"done", "failed"})

\* C38 witness: a call whose every fetch was rejected has ended with an
\* error after n fetches.
C38_Witness ==
  \E p \in Procs :
    /\ op[p] = "retrieveAndCombineShares" /\ pc[p] = "failed"
    /\ cfg.total = 3
    /\ loc[p].fetchLog = <<1, 2, 3>>
    /\ Len(loc[p].errors) = 3

\* The stored status of version v of wallet w, "none" without a record.
StatusOf(w, v) ==
  IF IsLedger(WalletLedger(w)) /\ v \in DOMAIN WalletLedger(w).versions
    THEN WalletLedger(w).versions[v].status
    ELSE "none"

\* Version v of wallet w is deprecated and its expiresAt has passed.
GraceOver(w, v) ==
  /\ StatusOf(w, v) = "deprecated"
  /\ ~Before(now, WalletLedger(w).versions[v].expiresAt)

\* C39: a version that rotateWallet has deprecated is marked deleted some
\* time after its grace period is over: once its expiresAt has passed, the
\* cleanup scheduled by the rotation comes to call deleteOldVersion for it.
C39_DeprecatedEventuallyDeleted ==
  \A w \in WalletIds, v \in 1..MaxVersion :
    GraceOver(w, v) ~> (StatusOf(w, v) = "deleted")

\* C40: when generateWallet, generateMPCWallet, rotateWallet or a
\* getPublicKey that reconstructed the key has ended, by a return or by an
\* exception, after its key-material buffer was filled, the buffer has been
\* overwritten with zeros.
C40_KeyZeroedOutsideSigning ==
  \A p \in Procs :
    (/\ op[p] \in {"generateWallet", "generateMPCWallet", "rotateWallet",
                   "getPublicKey", "getPublicKeyMPC"}
     /\ pc[p] \in {"done", "failed"}
     /\ loc[p].buf # "none")
      => loc[p].buf = "zeroed"

=============================================================================
